---- MODULE Spec2Model ----
(***************************************************************************)
(* A model of the stunne repository: the DetermineMapping session state    *)
(* machine of stunne-diagnostics and the message codec of stunne-protocol  *)
(* (attribute iterator, encoder pipeline, header codec, decoder facade).   *)
(*                                                                         *)
(* Instants are natural numbers counting seconds, Durations likewise.      *)
(* Bytes are naturals 0..255; byte slices and buffers are sequences.       *)
(***************************************************************************)
EXTENDS Naturals, Integers, Sequences, FiniteSets, TLC

VARIABLES
    state,      \* StunSession.state : DetermineMappingSession
    pre,        \* the session state the latest process() call consumed
    event,      \* the StunEvent handed to the latest process() call
    outgoing,   \* the OutgoingDatagrams returned by the latest process() call
    clock,      \* the latest Instant any Idle event has carried so far
    \* --- stunne-protocol: encoder pipeline ---
    stage,      \* "StunEncoder", "StunAttributeEncoder", "Bytes" (after finish)
    header,     \* StunAttributeEncoder.header
    header_buf, \* StunAttributeEncoder.header_buf (StunEncoder.buf before)
    buf,        \* StunAttributeEncoder.buf
    next_attribute_byte, \* StunAttributeEncoder.next_attribute_byte
    added,      \* the (type, value) pairs handed to add_attribute, in call order
    message,    \* the Bytes returned by finish()
    \* --- stunne-protocol: decoder facade and attribute iterator ---
    decoder,    \* the Result of StunDecoder::new(message)
    source,     \* the slice the attribute iterator was created over
    data,       \* StunAttributeIterator.data, the remaining slice
    results,    \* what each next() call returned, with the offsets it moved between
    \* --- stunne-protocol, stunne-client: header codec applied to given inputs ---
    hin,        \* the (MessageHeader, data_length) handed to encode_with_length
    hraw,       \* the bytes handed to the decoders
    hdec,       \* MessageHeader::decode_with_length(hraw), for 20 bytes
    sdec,       \* StunDecoder::new(hraw)
    cdec,       \* StunHeader::from_bytes(hraw) of stunne-client
    \* --- stunne-protocol: attribute value codecs applied to given inputs ---
    ain,        \* the (SocketAddr, TransactionId) handed to XorMappedAddressEncoder
    araw,       \* the value bytes handed to the decoders
    attr_parsed,    \* attributes.rs parse_mapped_address(araw)
    enc_parsed,     \* MappedAddressDecoder.decode(araw)
    xor_decoded,    \* XorMappedAddressDecoder(tx_id).decode(araw)
    cr_decoded,     \* ChangeRequestDecoder.decode(araw)
    utf8_decoded,   \* Utf8Decoder.decode(araw)
    vin,            \* the value handed to MappedAddressEncoder, ChangeRequest or &str encode
    \* --- stunne-diagnostics: a recorded session and a second session replaying it ---
    log,        \* per process call of the session: the event, the new state, the outgoing
    twin,       \* the state of a second session, fed the logged events later
    twin_event, \* the last event the second session was fed
    twin_out,   \* the outgoing of the second session's last process call
    replayed,   \* how many logged events the second session has been fed
    \* --- the driver loop around a session ---
    pc,         \* the driver's position: "start", "process", "status", "wait", "done"
    next_event, \* the event the driver will hand to process
    deadline,   \* the timeout of the last Waiting status
    \* --- stunne-diagnostics: run_session, its channel and the sender task ---
    instant,    \* what Instant::now() returns, in seconds
    sess,       \* the DetermineNatMappingSession: timeout, received
    run_pc,     \* run_session's position: "proceed", "sleep", "select", "returned"
    timeout,    \* the Duration of the last Continue
    sleep_until,\* the Instant at which timeout_fut completes
    result,     \* what run_session returned
    incoming,   \* the channel: queued messages, closed
    sender_pc,  \* the spawned task: "sleep", "send", "end", "done"
    delivered   \* incoming.recv() has returned Some(())

sessVars == <<state, pre, event, outgoing, clock>>

encVars == <<stage, header, header_buf, buf, next_attribute_byte, added, message>>

decVars == <<decoder, source, data, results>>

hdrVars == <<hin, hraw, hdec, sdec, cdec>>

addrVars == <<ain, araw, attr_parsed, enc_parsed, xor_decoded, cr_decoded, utf8_decoded, vin>>

replayVars == <<log, twin, twin_event, twin_out, replayed>>

driverVars == <<pc, next_event, deadline>>

diagVars == <<instant, sess, run_pc, timeout, sleep_until, result, incoming, sender_pc,
              delivered>>

labVars == <<hdrVars, addrVars, replayVars, driverVars, diagVars>>

\* everything but the diagnostics program
restVars == <<sessVars, encVars, decVars, hdrVars, addrVars, replayVars, driverVars>>

vars == <<sessVars, encVars, decVars, labVars>>

----------------------------------------------------------------------------
(* Bounds of the model.                                                    *)

\* Idle events carry an Instant in 0..MaxNow.
MaxNow == 7
\* add_attribute is called at most MaxAttrs times on one encoder.
MaxAttrs == 2
\* Raw slices handed to StunAttributeIterator::from_bytes have at most this length.
MaxSliceLen == 8
\* next() is called at most MaxNextCalls times on one iterator.
MaxNextCalls == 5
\* Length of the one large attribute value the encoder is fed.
BigLen == 32768
\* Length of the attribute value that does not fit the 16-bit TLV length field.
OversizeLen == 65536
\* A recorded session is fed at most MaxEvents events.
MaxEvents == 3

----------------------------------------------------------------------------
(* stunne-diagnostics/src/sessions: the session state machine.             *)

TIMEOUT_SECS == 3

NoEvent == [tag |-> "NoEvent"]

Idle(now) == [tag |-> "Idle", now |-> now]

DatagramReceived(bytes) == [tag |-> "DatagramReceived", bytes |-> bytes]

Initial == [tag |-> "Initial"]

FirstPacketSent(t) == [tag |-> "FirstPacketSent", timeout_at |-> t]

Complete(r) == [tag |-> "Complete", result |-> r]

Ok_EndpointIndependent == "Ok(EndpointIndependent)"

Err_UnexpectedTimeout == "Err(UnexpectedTimeout)"

\* The datagrams a driver may deliver: empty, truncated and header-sized.
Datagrams == { <<>>, <<0, 1, 0>>, <<192, 1, 0, 0>> }

StunEvents == { Idle(n) : n \in 0..MaxNow } \cup { DatagramReceived(b) : b \in Datagrams }

\* Mutant: an unchanged session asks for the first attempt to be sent again.
no_change_resend(self) == <<self, "FirstAttempt">>

no_change(self) == <<self, "None">>

\* Mutant: the deadline is the Instant of the first Idle, the timeout is not added.
process_no_timeout_added(self, ev) ==
    CASE self.tag = "Initial" /\ ev.tag = "Idle" ->
            <<FirstPacketSent(ev.now), "FirstAttempt">>
      [] self.tag = "Initial" /\ ev.tag = "DatagramReceived" -> no_change(self)
      [] self.tag = "FirstPacketSent" /\ ev.tag = "Idle" /\ self.timeout_at < ev.now ->
            <<Complete(Err_UnexpectedTimeout), "None">>
      [] self.tag = "FirstPacketSent" /\ ev.tag = "Idle" /\ ~(self.timeout_at < ev.now) ->
            no_change(self)
      [] self.tag = "FirstPacketSent" /\ ev.tag = "DatagramReceived" ->
            <<Complete(Ok_EndpointIndependent), "None">>
      [] self.tag = "Complete" -> no_change(self)

\* Mutant: the datagram arm matches every state but Initial, so a datagram that
\* arrives after the timeout was reported overwrites the result.
process_datagram_overrides(self, ev) ==
    CASE self.tag = "Initial" /\ ev.tag = "Idle" ->
            <<FirstPacketSent(ev.now + TIMEOUT_SECS), "FirstAttempt">>
      [] self.tag = "Initial" /\ ev.tag = "DatagramReceived" -> no_change(self)
      [] self.tag = "FirstPacketSent" /\ ev.tag = "Idle" /\ self.timeout_at < ev.now ->
            <<Complete(Err_UnexpectedTimeout), "None">>
      [] self.tag = "FirstPacketSent" /\ ev.tag = "Idle" /\ ~(self.timeout_at < ev.now) ->
            no_change(self)
      [] self.tag # "Initial" /\ ev.tag = "DatagramReceived" ->
            <<Complete(Ok_EndpointIndependent), "None">>
      [] self.tag = "Complete" /\ ev.tag = "Idle" -> no_change(self)

\* Mutant: an empty datagram is taken for a timeout instead of a response.
process_late_datagram(self, ev) ==
    CASE self.tag = "Initial" /\ ev.tag = "Idle" ->
            <<FirstPacketSent(ev.now + TIMEOUT_SECS), "FirstAttempt">>
      [] self.tag = "Initial" /\ ev.tag = "DatagramReceived" -> no_change(self)
      [] self.tag = "FirstPacketSent" /\ ev.tag = "Idle" /\ self.timeout_at < ev.now ->
            <<Complete(Err_UnexpectedTimeout), "None">>
      [] self.tag = "FirstPacketSent" /\ ev.tag = "Idle" /\ ~(self.timeout_at < ev.now) ->
            no_change(self)
      [] self.tag = "FirstPacketSent" /\ ev.tag = "DatagramReceived" ->
            IF Len(ev.bytes) = 0
            THEN <<Complete(Err_UnexpectedTimeout), "None">>
            ELSE <<Complete(Ok_EndpointIndependent), "None">>
      [] self.tag = "Complete" -> no_change(self)

\* Mutant: the timeout arm compares the deadline with the clock, not with the
\* Instant the event carries.
process_reads_clock(self, ev) ==
    CASE self.tag = "Initial" /\ ev.tag = "Idle" ->
            <<FirstPacketSent(ev.now + TIMEOUT_SECS), "FirstAttempt">>
      [] self.tag = "Initial" /\ ev.tag = "DatagramReceived" -> no_change(self)
      [] self.tag = "FirstPacketSent" /\ ev.tag = "Idle" /\ self.timeout_at < clock ->
            <<Complete(Err_UnexpectedTimeout), "None">>
      [] self.tag = "FirstPacketSent" /\ ev.tag = "Idle" /\ ~(self.timeout_at < clock) ->
            no_change(self)
      [] self.tag = "FirstPacketSent" /\ ev.tag = "DatagramReceived" ->
            <<Complete(Ok_EndpointIndependent), "None">>
      [] self.tag = "Complete" -> no_change(self)

\* Mutant: on a timeout the first attempt is sent again.
process_retransmits_on_timeout(self, ev) ==
    CASE self.tag = "Initial" /\ ev.tag = "Idle" ->
            <<FirstPacketSent(ev.now + TIMEOUT_SECS), "FirstAttempt">>
      [] self.tag = "Initial" /\ ev.tag = "DatagramReceived" -> no_change(self)
      [] self.tag = "FirstPacketSent" /\ ev.tag = "Idle" /\ self.timeout_at < ev.now ->
            <<Complete(Err_UnexpectedTimeout), "FirstAttempt">>
      [] self.tag = "FirstPacketSent" /\ ev.tag = "Idle" /\ ~(self.timeout_at < ev.now) ->
            no_change(self)
      [] self.tag = "FirstPacketSent" /\ ev.tag = "DatagramReceived" ->
            <<Complete(Ok_EndpointIndependent), "None">>
      [] self.tag = "Complete" -> no_change(self)

\* Mutant: an Idle before the deadline moves the deadline.
process_extends_deadline(self, ev) ==
    CASE self.tag = "Initial" /\ ev.tag = "Idle" ->
            <<FirstPacketSent(ev.now + TIMEOUT_SECS), "FirstAttempt">>
      [] self.tag = "Initial" /\ ev.tag = "DatagramReceived" -> no_change(self)
      [] self.tag = "FirstPacketSent" /\ ev.tag = "Idle" /\ self.timeout_at < ev.now ->
            <<Complete(Err_UnexpectedTimeout), "None">>
      [] self.tag = "FirstPacketSent" /\ ev.tag = "Idle" /\ ~(self.timeout_at < ev.now) ->
            <<FirstPacketSent(ev.now + TIMEOUT_SECS), "None">>
      [] self.tag = "FirstPacketSent" /\ ev.tag = "DatagramReceived" ->
            <<Complete(Ok_EndpointIndependent), "None">>
      [] self.tag = "Complete" -> no_change(self)

\* DetermineMappingSession::process: the match arms in source order.
process(self, ev) ==
    CASE self.tag = "Initial" /\ ev.tag = "Idle" ->
            <<FirstPacketSent(ev.now + TIMEOUT_SECS), "FirstAttempt">>
      [] self.tag = "Initial" /\ ev.tag = "DatagramReceived" -> no_change(self)
      [] self.tag = "FirstPacketSent" /\ ev.tag = "Idle" /\ self.timeout_at < ev.now ->
            <<Complete(Err_UnexpectedTimeout), "None">>
      [] self.tag = "FirstPacketSent" /\ ev.tag = "Idle" /\ ~(self.timeout_at < ev.now) ->
            no_change(self)
      [] self.tag = "FirstPacketSent" /\ ev.tag = "DatagramReceived" ->
            <<Complete(Ok_EndpointIndependent), "None">>
      [] self.tag = "Complete" -> no_change(self)

\* StunSession::new(DetermineMappingSession::default())
SessionInit ==
    /\ state = Initial
    /\ pre = Initial
    /\ event = NoEvent
    /\ outgoing = "None"
    /\ clock = 0

\* StunSession::process(&mut self, event)
StunSession_process(ev) ==
    /\ LET r == process(state, ev) IN
        /\ state' = r[1]
        /\ outgoing' = r[2]
    /\ pre' = state
    /\ event' = ev
    /\ clock' = IF ev.tag = "Idle" /\ ev.now > clock THEN ev.now ELSE clock

\* DetermineMappingSession::status; now is what Instant::now() returns when the
\* call is made, which only the Initial arm reads
status(self, now) ==
    CASE self.tag = "Initial" -> [tag |-> "Waiting", timeout |-> now + 10]
      [] self.tag = "FirstPacketSent" -> [tag |-> "Waiting", timeout |-> self.timeout_at]
      [] self.tag = "Complete" -> [tag |-> "Complete", result |-> self.result]

\* StunSession::status
StunSession_status(now) == status(state, now)

DeliverIdle ==
    /\ \E n \in 0..MaxNow : StunSession_process(Idle(n))
    /\ UNCHANGED <<encVars, decVars, labVars>>

DeliverDatagram ==
    /\ \E b \in Datagrams : StunSession_process(DatagramReceived(b))
    /\ UNCHANGED <<encVars, decVars, labVars>>

NextSession == DeliverIdle \/ DeliverDatagram

----------------------------------------------------------------------------
(* A session whose process calls are recorded, and a second session that   *)
(* is fed the recorded events later, with datagram bytes of its own.       *)

ReplayInit ==
    /\ log = <<>>
    /\ twin = Initial
    /\ twin_event = NoEvent
    /\ twin_out = "None"
    /\ replayed = 0

\* StunSession::process on the first session, recorded
Record ==
    /\ Len(log) < MaxEvents
    /\ \E ev \in StunEvents :
        /\ StunSession_process(ev)
        /\ log' = Append(log, [event |-> ev, state |-> state', outgoing |-> outgoing'])
    /\ UNCHANGED <<twin, twin_event, twin_out, replayed,
                   encVars, decVars, hdrVars, addrVars, driverVars, diagVars>>

\* the same event with other bytes, when it is a datagram
WithBytes(ev, b) == IF ev.tag = "DatagramReceived" THEN DatagramReceived(b) ELSE ev

\* StunSession::process on the second session, with the next recorded event
Replay ==
    /\ replayed < Len(log)
    /\ \E b \in Datagrams :
        LET ev == WithBytes(log[replayed + 1].event, b)
            r == process(twin, ev)
        IN /\ twin' = r[1]
           /\ twin_out' = r[2]
           /\ twin_event' = ev
    /\ replayed' = replayed + 1
    /\ UNCHANGED <<log, sessVars, encVars, decVars, hdrVars, addrVars, driverVars, diagVars>>

NextReplay == Record \/ Replay

----------------------------------------------------------------------------
(* The driver loop: process, then status; if Complete return; if Waiting   *)
(* block on the socket read until a datagram or the reported deadline,     *)
(* make the next event and repeat.                                         *)

\* The latest Instant the driver's clock shows on a wakeup.
LastInstant == MaxNow + TIMEOUT_SECS + 1

DriverInit ==
    /\ pc = "start"
    /\ next_event = NoEvent
    /\ deadline = 0

\* the driver starts the session with an Idle carrying the current Instant
DriverStart ==
    /\ pc = "start"
    /\ \E now \in 0..MaxNow : next_event' = Idle(now)
    /\ pc' = "process"
    /\ UNCHANGED <<deadline, sessVars, encVars, decVars, hdrVars, addrVars, replayVars, diagVars>>

\* call process with the event
DriverProcess ==
    /\ pc = "process"
    /\ StunSession_process(next_event)
    /\ pc' = "status"
    /\ UNCHANGED <<next_event, deadline, encVars, decVars, hdrVars, addrVars, replayVars, diagVars>>

\* inspect status: return when Complete, else wait until the reported timeout
DriverStatus ==
    /\ pc = "status"
    /\ \E now \in 0..LastInstant :
        LET st == StunSession_status(now)
        IN IF st.tag = "Complete"
           THEN pc' = "done" /\ UNCHANGED deadline
           ELSE pc' = "wait" /\ deadline' = st.timeout
    /\ UNCHANGED <<next_event, sessVars, encVars, decVars, hdrVars, addrVars, replayVars, diagVars>>

\* wake on a datagram, or at the deadline with the Instant of the wakeup,
\* which is the deadline or later
DriverWake ==
    /\ pc = "wait"
    /\ \/ \E b \in Datagrams : next_event' = DatagramReceived(b)
       \/ \E now \in deadline..LastInstant : next_event' = Idle(now)
    /\ pc' = "process"
    /\ UNCHANGED <<deadline, sessVars, encVars, decVars, hdrVars, addrVars, replayVars, diagVars>>

NextDriver == DriverStart \/ DriverProcess \/ DriverStatus \/ DriverWake


----------------------------------------------------------------------------
(* Byte and integer helpers (u16 arithmetic, bytes::BytesMut operations).  *)

Min(a, b) == IF a < b THEN a ELSE b

\* `x as u16`
as_u16(x) == x % 65536

\* u16::to_be_bytes
to_be_bytes(x) == << (x \div 256) % 256, x % 256 >>

\* u16::from_be_bytes
from_be_bytes(b) == b[1] * 256 + b[2]

RECURSIVE BitAnd(_, _)
\* x & y on unsigned integers
BitAnd(x, y) ==
    IF x = 0 \/ y = 0 THEN 0
    ELSE (x % 2) * (y % 2) + 2 * BitAnd(x \div 2, y \div 2)

\* x << k on u16
Shl(x, k) == as_u16(x * (2 ^ k))

\* x >> k
Shr(x, k) == x \div (2 ^ k)

\* BytesMut::split_off(at): self keeps [0, at), the returned half holds [at, len).
split_off(b, at) ==
    [self |-> SubSeq(b, 1, Min(Len(b), at)), other |-> SubSeq(b, at + 1, Len(b))]

\* BytesMut::unsplit(other): the contents of other follow those of self.
unsplit(b, other) == IF Len(b) = 0 THEN other ELSE b \o other

\* BufMut::put_u16(n): big-endian
put_u16(b, n) == b \o to_be_bytes(n)

\* BufMut::put_bytes(val, cnt)
put_bytes(b, val, cnt) == b \o [i \in 1..cnt |-> val]

----------------------------------------------------------------------------
(* stunne-protocol/src/utils.rs, lib.rs, header.rs: message type, header.  *)

MAGIC_COOKIE == <<33, 18, 164, 66>>

STUN_HEADER_BYTES == 20

PADDING_VALUE == 0

ATTRIBUTE_HEADER_BYTES == 4

ATTRIBUTE_TYPE_LENGTH_BYTES == 4

ALIGNMENT_BYTES == 4

\* impl From<MessageClass> for u16
class_to_u16(class) ==
    CASE class = "Request" -> 0
      [] class = "Indication" -> 1
      [] class = "SuccessResponse" -> 2
      [] class = "ErrorResponse" -> 3

\* impl TryFrom<u16> for MessageClass
class_try_from(value) ==
    CASE value = 0 -> [ok |-> TRUE, class |-> "Request"]
      [] value = 1 -> [ok |-> TRUE, class |-> "Indication"]
      [] value = 2 -> [ok |-> TRUE, class |-> "SuccessResponse"]
      [] value = 3 -> [ok |-> TRUE, class |-> "ErrorResponse"]
      [] OTHER -> [ok |-> FALSE, err |-> "InvalidMessageClass"]

\* MessageMethod::try_from_u16
try_from_u16(value) ==
    IF value \in 0..4095 THEN [ok |-> TRUE, method |-> value]
    ELSE [ok |-> FALSE, err |-> "InvalidMessageMethod"]

\* Mutant: the low class bit is shifted to bit 5 instead of bit 4.
encode_message_type_class_bit_5(class, method) ==
    LET class_value == class_to_u16(class)
        v1 == Shl(BitAnd(class_value, 2), 7)
        v2 == v1 + Shl(BitAnd(class_value, 1), 5)
        v3 == v2 + Shl(BitAnd(method, 3968), 2)
        v4 == v3 + Shl(BitAnd(method, 112), 1)
        final_value == v4 + BitAnd(method, 15)
    IN to_be_bytes(as_u16(final_value))

\* encode_message_type
encode_message_type(class, method) ==
    LET class_value == class_to_u16(class)
        v1 == Shl(BitAnd(class_value, 2), 7)
        v2 == v1 + Shl(BitAnd(class_value, 1), 4)
        v3 == v2 + Shl(BitAnd(method, 3968), 2)
        v4 == v3 + Shl(BitAnd(method, 112), 1)
        final_value == v4 + BitAnd(method, 15)
    IN to_be_bytes(as_u16(final_value))

\* Mutant: the top bit of the method is masked away.
decode_message_type_short_mask(bytes) ==
    LET type_value == from_be_bytes(bytes)
        class_value == Shr(BitAnd(type_value, 256), 7) + Shr(BitAnd(type_value, 16), 4)
        method_value == Shr(BitAnd(type_value, 7680), 2)
                        + Shr(BitAnd(type_value, 224), 1)
                        + BitAnd(type_value, 15)
        c == class_try_from(class_value)
        m == try_from_u16(method_value)
    IN IF ~c.ok THEN c
       ELSE IF ~m.ok THEN m
       ELSE [ok |-> TRUE, class |-> c.class, method |-> m.method]

\* decode_message_type
decode_message_type(bytes) ==
    LET type_value == from_be_bytes(bytes)
        class_value == Shr(BitAnd(type_value, 256), 7) + Shr(BitAnd(type_value, 16), 4)
        method_value == Shr(BitAnd(type_value, 15872), 2)
                        + Shr(BitAnd(type_value, 224), 1)
                        + BitAnd(type_value, 15)
        c == class_try_from(class_value)
        m == try_from_u16(method_value)
    IN IF ~c.ok THEN c
       ELSE IF ~m.ok THEN m
       ELSE [ok |-> TRUE, class |-> c.class, method |-> m.method]

\* Mutant: the length is written low byte first.
encode_with_length_little_endian(self, b, data_length) ==
    b \o encode_message_type(self.class, self.method)
      \o <<as_u16(data_length) % 256, as_u16(data_length) \div 256>>
      \o MAGIC_COOKIE \o self.tx_id

\* MessageHeader::encode_with_length: the bytes the call appends to b
encode_with_length(self, b, data_length) ==
    put_u16(b \o encode_message_type(self.class, self.method), data_length)
        \o MAGIC_COOKIE \o self.tx_id

\* Mutant: the magic cookie is checked before the starting bits.
decode_with_length_cookie_first(b) ==
    IF SubSeq(b, 5, 8) # MAGIC_COOKIE THEN [ok |-> FALSE, err |-> "InvalidMagicCookie"]
    ELSE IF BitAnd(b[1], 192) # 0 THEN [ok |-> FALSE, err |-> "NonZeroStartingBits"]
    ELSE LET cm == decode_message_type(SubSeq(b, 1, 2))
             length == from_be_bytes(SubSeq(b, 3, 4))
             tx_id == SubSeq(b, 9, 20)
         IN IF ~cm.ok THEN cm
            ELSE [ok |-> TRUE,
                  header |-> [class |-> cm.class, method |-> cm.method, tx_id |-> tx_id],
                  length |-> length]

\* Mutant: only the first three bytes of the magic cookie are compared.
decode_with_length_cookie_prefix(b) ==
    IF BitAnd(b[1], 192) # 0 THEN [ok |-> FALSE, err |-> "NonZeroStartingBits"]
    ELSE IF SubSeq(b, 5, 7) # SubSeq(MAGIC_COOKIE, 1, 3)
    THEN [ok |-> FALSE, err |-> "InvalidMagicCookie"]
    ELSE LET cm == decode_message_type(SubSeq(b, 1, 2))
             length == from_be_bytes(SubSeq(b, 3, 4))
             tx_id == SubSeq(b, 9, 20)
         IN IF ~cm.ok THEN cm
            ELSE [ok |-> TRUE,
                  header |-> [class |-> cm.class, method |-> cm.method, tx_id |-> tx_id],
                  length |-> length]

\* MessageHeader::decode_with_length over a 20-byte array
decode_with_length(b) ==
    IF BitAnd(b[1], 192) # 0 THEN [ok |-> FALSE, err |-> "NonZeroStartingBits"]
    ELSE IF SubSeq(b, 5, 8) # MAGIC_COOKIE THEN [ok |-> FALSE, err |-> "InvalidMagicCookie"]
    ELSE LET cm == decode_message_type(SubSeq(b, 1, 2))
             length == from_be_bytes(SubSeq(b, 3, 4))
             tx_id == SubSeq(b, 9, 20)
         IN IF ~cm.ok THEN cm
            ELSE [ok |-> TRUE,
                  header |-> [class |-> cm.class, method |-> cm.method, tx_id |-> tx_id],
                  length |-> length]

\* padding_for_attribute_length
padding_for_attribute_length(length) ==
    LET extra == length % ALIGNMENT_BYTES
    IN IF extra # 0 THEN ALIGNMENT_BYTES - extra ELSE 0

----------------------------------------------------------------------------
(* stunne-protocol/src/attributes.rs: the attribute iterator.              *)

ItemNone == [kind |-> "None"]

ItemErr == [kind |-> "Err", err |-> "UnexpectedEndOfBytes"]

ItemOk(t, d) == [kind |-> "Ok", attribute_type |-> t, data |-> d]

\* Mutant: the error arms report the error but leave the remaining slice alone.
next_keeps_data(d) ==
    IF Len(d) = 0 THEN [ret |-> ItemNone, data |-> d]
    ELSE IF Len(d) < ATTRIBUTE_TYPE_LENGTH_BYTES
    THEN [ret |-> ItemErr, data |-> d]
    ELSE LET attribute_type == from_be_bytes(SubSeq(d, 1, 2))
             length == from_be_bytes(SubSeq(d, 3, 4))
             next_attribute_byte_ == ATTRIBUTE_TYPE_LENGTH_BYTES + length
         IN IF next_attribute_byte_ > Len(d)
            THEN [ret |-> ItemErr, data |-> d]
            ELSE [ret |-> ItemOk(attribute_type,
                            SubSeq(d, ATTRIBUTE_TYPE_LENGTH_BYTES + 1, next_attribute_byte_)),
                  data |-> SubSeq(d, next_attribute_byte_ + 1, Len(d))]

\* Mutant: an attribute step moves on by the value length only.
next_skips_value_only(d) ==
    IF Len(d) = 0 THEN [ret |-> ItemNone, data |-> d]
    ELSE IF Len(d) < ATTRIBUTE_TYPE_LENGTH_BYTES
    THEN [ret |-> ItemErr, data |-> <<>>]
    ELSE LET attribute_type == from_be_bytes(SubSeq(d, 1, 2))
             length == from_be_bytes(SubSeq(d, 3, 4))
             next_attribute_byte_ == ATTRIBUTE_TYPE_LENGTH_BYTES + length
         IN IF next_attribute_byte_ > Len(d)
            THEN [ret |-> ItemErr, data |-> <<>>]
            ELSE [ret |-> ItemOk(attribute_type,
                            SubSeq(d, ATTRIBUTE_TYPE_LENGTH_BYTES + 1, next_attribute_byte_)),
                  data |-> SubSeq(d, length + 1, Len(d))]

\* StunAttributeIterator::next: the returned item and the new self.data
next(d) ==
    IF Len(d) = 0 THEN [ret |-> ItemNone, data |-> d]
    ELSE IF Len(d) < ATTRIBUTE_TYPE_LENGTH_BYTES
    THEN [ret |-> ItemErr, data |-> <<>>]
    ELSE LET attribute_type == from_be_bytes(SubSeq(d, 1, 2))
             length == from_be_bytes(SubSeq(d, 3, 4))
             next_attribute_byte_ == ATTRIBUTE_TYPE_LENGTH_BYTES + length
         IN IF next_attribute_byte_ > Len(d)
            THEN [ret |-> ItemErr, data |-> <<>>]
            ELSE [ret |-> ItemOk(attribute_type,
                            SubSeq(d, ATTRIBUTE_TYPE_LENGTH_BYTES + 1, next_attribute_byte_)),
                  data |-> SubSeq(d, next_attribute_byte_ + 1, Len(d))]

\* Mutant: the header checks come first, on whatever bytes are there.
StunDecoder_new_header_first(b) ==
    IF Len(b) > 0 /\ BitAnd(b[1], 192) # 0 THEN [ok |-> FALSE, err |-> "NonZeroStartingBits"]
    ELSE IF Len(b) >= 8 /\ SubSeq(b, 5, 8) # MAGIC_COOKIE
    THEN [ok |-> FALSE, err |-> "InvalidMagicCookie"]
    ELSE IF Len(b) < STUN_HEADER_BYTES THEN [ok |-> FALSE, err |-> "UnexpectedEndOfData"]
    ELSE LET header_buf_ == SubSeq(b, 1, STUN_HEADER_BYTES)
             attribute_buf == SubSeq(b, STUN_HEADER_BYTES + 1, Len(b))
             h == decode_with_length(header_buf_)
         IN IF ~h.ok THEN h
            ELSE [ok |-> TRUE, header |-> h.header, attribute_buf |-> attribute_buf]

\* StunDecoder::new
StunDecoder_new(b) ==
    IF Len(b) < STUN_HEADER_BYTES THEN [ok |-> FALSE, err |-> "UnexpectedEndOfData"]
    ELSE LET header_buf_ == SubSeq(b, 1, STUN_HEADER_BYTES)
             attribute_buf == SubSeq(b, STUN_HEADER_BYTES + 1, Len(b))
             h == decode_with_length(header_buf_)
         IN IF ~h.ok THEN h
            ELSE [ok |-> TRUE, header |-> h.header, attribute_buf |-> attribute_buf]

----------------------------------------------------------------------------
(* Inputs of the codec.                                                    *)

\* Headers handed to encode_header.
Headers ==
    { [class |-> "Request", method |-> 1,
       tx_id |-> <<1, 2, 3, 4, 5, 6, 7, 8, 9, 10, 11, 12>>],
      [class |-> "ErrorResponse", method |-> 4095,
       tx_id |-> <<255, 254, 253, 252, 251, 250, 249, 248, 247, 246, 245, 244>>] }

\* Attribute types handed to add_attribute: MAPPED-ADDRESS and SOFTWARE.
AttributeTypes == { 1, 32802 }

\* A value of BigLen bytes, all 170.
BigValue == [i \in 1..BigLen |-> 170]

\* A value of OversizeLen bytes, all 85.
OversizeValue == [i \in 1..OversizeLen |-> 85]

\* Values the attribute codecs produce: every residue of the length mod 4,
\* and the strings "test1" and "test02" of the encoder tests.
Values ==
    { <<>>, <<7>>, <<7, 8>>, <<7, 8, 9>>, <<1, 2, 3, 4>>,
      <<116, 101, 115, 116, 49>>, <<116, 101, 115, 116, 48, 50>> }

\* Bytes of the raw slices handed to StunAttributeIterator::from_bytes.
SliceBytes == { 0, 1, 2 }

RawSlices == UNION { [1..n -> SliceBytes] : n \in 0..MaxSliceLen }

----------------------------------------------------------------------------
(* stunne-protocol/src/lib.rs: the encoder pipeline, as actions.           *)

NoHeader == [class |-> "Request", method |-> 0, tx_id |-> <<>>]

NoDecoder == [ok |-> FALSE, err |-> "NotDecoded"]

\* StunEncoder::new(BytesMut::new()), nothing decoded yet
CodecInit ==
    /\ stage = "StunEncoder"
    /\ header = NoHeader
    /\ header_buf = <<>>
    /\ buf = <<>>
    /\ next_attribute_byte = 0
    /\ added = <<>>
    /\ message = <<>>
    /\ decoder = NoDecoder
    /\ source = <<>>
    /\ data = <<>>
    /\ results = <<>>

\* StunEncoder::encode_header
encode_header(h) ==
    /\ stage = "StunEncoder"
    /\ LET s == split_off(header_buf, STUN_HEADER_BYTES) IN
        /\ header_buf' = s.self
        /\ buf' = s.other
    /\ next_attribute_byte' = 0
    /\ header' = h
    /\ stage' = "StunAttributeEncoder"
    /\ UNCHANGED <<added, message, sessVars, decVars, labVars>>

\* StunAttributeEncoder::add_attribute; value is what encoder.encode appends
add_attribute(attribute_type, value) ==
    /\ stage = "StunAttributeEncoder"
    /\ Len(added) < MaxAttrs
    /\ LET s1 == split_off(buf, next_attribute_byte)
           s2 == split_off(s1.other, ATTRIBUTE_HEADER_BYTES)
           attribute_data == s2.other \o value
           attribute_length == Len(attribute_data)
           padding_length == padding_for_attribute_length(attribute_length)
           padded == put_bytes(attribute_data, PADDING_VALUE, padding_length)
           attribute_header == put_u16(put_u16(s2.self, attribute_type),
                                       as_u16(attribute_length))
       IN
        /\ buf' = unsplit(s1.self, unsplit(attribute_header, padded))
        /\ next_attribute_byte' = next_attribute_byte + ATTRIBUTE_HEADER_BYTES
                                    + attribute_length + padding_length
    /\ added' = Append(added, [attribute_type |-> attribute_type, data |-> value])
    /\ UNCHANGED <<stage, header, header_buf, message, sessVars, decVars, labVars>>

\* StunAttributeEncoder::finish
finish ==
    /\ stage = "StunAttributeEncoder"
    /\ LET hb == encode_with_length(header, header_buf, as_u16(Len(buf)))
       IN message' = unsplit(hb, buf)
    /\ stage' = "Bytes"
    /\ UNCHANGED <<header, header_buf, buf, next_attribute_byte, added, sessVars, decVars, labVars>>

\* StunDecoder::new(&bytes) on the encoder's output
NewDecoder ==
    /\ stage = "Bytes"
    /\ decoder' = StunDecoder_new(message)
    /\ stage' = "StunDecoder"
    /\ UNCHANGED <<header, header_buf, buf, next_attribute_byte, added, message,
                   source, data, results, sessVars, labVars>>

\* StunDecoder::attributes
attributes ==
    /\ stage = "StunDecoder"
    /\ decoder.ok
    /\ source' = decoder.attribute_buf
    /\ data' = decoder.attribute_buf
    /\ stage' = "StunAttributeIterator"
    /\ UNCHANGED <<header, header_buf, buf, next_attribute_byte, added, message,
                   decoder, results, sessVars, labVars>>

\* StunAttributeIterator::from_bytes on a raw slice
from_bytes(slice) ==
    /\ stage = "StunEncoder"
    /\ source' = slice
    /\ data' = slice
    /\ stage' = "StunAttributeIterator"
    /\ UNCHANGED <<header, header_buf, buf, next_attribute_byte, added, message,
                   decoder, results, sessVars, labVars>>

\* one call of StunAttributeIterator::next
IteratorNext ==
    /\ stage = "StunAttributeIterator"
    /\ Len(results) < MaxNextCalls
    /\ LET r == next(data) IN
        /\ data' = r.data
        /\ results' = Append(results, [ret |-> r.ret,
                                       start |-> Len(source) - Len(data),
                                       next |-> Len(source) - Len(r.data)])
    /\ UNCHANGED <<stage, source, decoder, encVars, sessVars, labVars>>

EncodeHeader == \E h \in Headers : encode_header(h)

\* Small messages: attributes that all carry one of the small values.
AddAttribute ==
    /\ stage = "StunAttributeEncoder"
    /\ \A i \in 1..Len(added) : Len(added[i].data) < BigLen
    /\ \E t \in AttributeTypes, v \in Values : add_attribute(t, v)

\* Large messages: SOFTWARE attributes that all carry the large value.
AddLargeAttribute ==
    /\ stage = "StunAttributeEncoder"
    /\ \A i \in 1..Len(added) : added[i].data = BigValue
    /\ add_attribute(32802, BigValue)

\* A message whose only attribute carries the oversize value.
AddOversizeAttribute ==
    /\ stage = "StunAttributeEncoder"
    /\ added = <<>>
    /\ add_attribute(32802, OversizeValue)

FromBytes == stage = "StunEncoder" /\ \E s \in RawSlices : from_bytes(s)

NextCodec ==
    \/ EncodeHeader
    \/ AddAttribute
    \/ AddLargeAttribute
    \/ AddOversizeAttribute
    \/ finish
    \/ NewDecoder
    \/ attributes
    \/ FromBytes
    \/ IteratorNext


----------------------------------------------------------------------------
(* More bit operations.                                                    *)

RECURSIVE BitOr(_, _)
\* x | y on unsigned integers
BitOr(x, y) ==
    IF x = 0 THEN y
    ELSE IF y = 0 THEN x
    ELSE (IF x % 2 = 1 \/ y % 2 = 1 THEN 1 ELSE 0) + 2 * BitOr(x \div 2, y \div 2)

RECURSIVE BitXor(_, _)
\* x ^ y on unsigned integers
BitXor(x, y) ==
    IF x = 0 THEN y
    ELSE IF y = 0 THEN x
    ELSE ((x + y) % 2) + 2 * BitXor(x \div 2, y \div 2)

----------------------------------------------------------------------------
(* stunne-client/src/protocol.rs: the client's header parser.              *)

MESSAGE_TYPE_BYTES == 2

MESSAGE_LENGTH_BYTES == 2

MAGIC_COOKIE_BYTES == 4

TRANSACTION_ID_BYTES == 12

\* slice::split_at(mid), for mid <= len
split_at(b, mid) == [left |-> SubSeq(b, 1, mid), right |-> SubSeq(b, mid + 1, Len(b))]

\* the match on class_bit_one | class_bit_two in StunHeader::from_bytes
StunClass(v) ==
    CASE v = 0 -> "Request"
      [] v = 1 -> "Indication"
      [] v = 2 -> "SuccessResponse"
      [] v = 3 -> "ErrorResponse"

\* StunHeader::from_bytes; the u128 transaction_id is kept as its 16 big-endian bytes
StunHeader_from_bytes(b) ==
    IF Len(b) < STUN_HEADER_BYTES THEN [ok |-> FALSE, err |-> "InvalidSize"]
    ELSE IF BitAnd(b[1], 192) # 0 THEN [ok |-> FALSE, err |-> "NonZeroStartingBits"]
    ELSE IF SubSeq(b, 5, 8) # MAGIC_COOKIE THEN [ok |-> FALSE, err |-> "InvalidMagicCookie"]
    ELSE LET s1 == split_at(b, MESSAGE_TYPE_BYTES)
             s2 == split_at(s1.right, MESSAGE_LENGTH_BYTES)
             s3 == split_at(s2.right, MAGIC_COOKIE_BYTES)
             s4 == split_at(s3.right, TRANSACTION_ID_BYTES)
             message_type == from_be_bytes(s1.left)
             class_bit_one == Shr(BitAnd(message_type, 256), 7)
             class_bit_two == Shr(BitAnd(message_type, 16), 4)
             class == StunClass(BitOr(class_bit_one, class_bit_two))
             first_bits == BitAnd(message_type, 15)
             second_bits == Shr(BitAnd(message_type, 224), 1)
             third_bits == Shr(BitAnd(message_type, 15872), 2)
             length == from_be_bytes(s2.left)
             rest == Len(b) - STUN_HEADER_BYTES
         IN IF rest < length THEN [ok |-> FALSE, err |-> "LengthExceedsSlice"]
            ELSE IF rest > length THEN [ok |-> FALSE, err |-> "SliceExceedsLength"]
            ELSE [ok |-> TRUE,
                  header |-> [method |-> 0,
                              length |-> length,
                              class |-> class,
                              message_type |-> BitOr(BitOr(first_bits, second_bits), third_bits),
                              transaction_id |-> <<0, 0, 0, 0>> \o s4.left],
                  attribute_bytes |-> s4.right]

----------------------------------------------------------------------------
(* Inputs of the header codec.                                             *)

MessageClasses == { "Request", "Indication", "SuccessResponse", "ErrorResponse" }

TxId1 == <<1, 2, 3, 4, 5, 6, 7, 8, 9, 10, 11, 12>>

TxId2 == <<255, 254, 253, 252, 251, 250, 249, 248, 247, 246, 245, 244>>

\* Every class with every method, and a choice of lengths and transaction ids.
HeaderInputs ==
    { [header |-> [class |-> c, method |-> m, tx_id |-> TxId1], length |-> 0] :
        c \in MessageClasses, m \in 0..4095 }
    \cup
    { [header |-> [class |-> c, method |-> m, tx_id |-> t], length |-> l] :
        c \in MessageClasses, m \in {0, 1, 165, 4095},
        t \in {TxId1, TxId2}, l \in {0, 1, 24, 255, 256, 4660, 65535} }

\* The cookie with bit x flipped, as test_invalid_magic_cookie flips it.
FlipCookieBit(x) ==
    [i \in 1..4 |-> BitXor(MAGIC_COOKIE[i], IF i = 4 - (x \div 8) THEN 2 ^ (x % 8) ELSE 0)]

Cookies ==
    { MAGIC_COOKIE, <<0, 0, 0, 0>>, <<66, 164, 18, 33>> } \cup { FlipCookieBit(x) : x \in 0..31 }

HeaderBytes(b0, b1, len, cookie, tx) == <<b0, b1>> \o to_be_bytes(len) \o cookie \o tx

\* 20-byte headers: starting bits set or clear, any type bits, good and bad cookies.
RawHeaders ==
    { HeaderBytes(b0, b1, 0, c, TxId1) :
        b0 \in {0, 1, 62, 63, 64, 128, 192, 255}, b1 \in {0, 1, 17, 239, 255}, c \in Cookies }

\* Slices of fewer than 20 bytes, cut from good and bad headers.
ShortSlices ==
    { SubSeq(h, 1, n) :
        h \in { HeaderBytes(0, 1, 0, MAGIC_COOKIE, TxId1),
                HeaderBytes(192, 1, 0, MAGIC_COOKIE, TxId1),
                HeaderBytes(0, 1, 0, <<0, 0, 0, 0>>, TxId1),
                HeaderBytes(128, 1, 0, <<0, 0, 0, 0>>, TxId1) },
        n \in 0..19 }

AttributeTail == <<0, 1, 0, 4, 1, 2, 3, 4, 0, 3, 0, 0>>

\* Well-formed headers with a stated length, followed by some attribute bytes.
LengthMessages ==
    { HeaderBytes(0, 1, len, MAGIC_COOKIE, TxId2) \o SubSeq(AttributeTail, 1, n) :
        len \in {0, 4, 8, 12, 300}, n \in 0..12 }

\* 20-byte headers with clear starting bits and the magic cookie: every value
\* of the other 14 bits of the type field, with the smallest and largest length.
TypedHeaders ==
    { HeaderBytes(b0, b1, len, MAGIC_COOKIE, TxId2) :
        b0 \in 0..63, b1 \in 0..255, len \in {0, 65535} }

RawMessages == RawHeaders \cup ShortSlices \cup LengthMessages \cup TypedHeaders

----------------------------------------------------------------------------
(* The header codec applied to one input per behaviour.                    *)

NoInput == [header |-> NoHeader, length |-> 0]

NotApplied == [ok |-> FALSE, err |-> "NotApplied"]

HeaderInit ==
    /\ hin = NoInput
    /\ hraw = <<>>
    /\ hdec = NotApplied
    /\ sdec = NotApplied
    /\ cdec = NotApplied

\* hand the bytes to decode_with_length (when 20), StunDecoder::new and from_bytes
Decode(b) ==
    /\ hraw' = b
    /\ hdec' = IF Len(b) = STUN_HEADER_BYTES THEN decode_with_length(b) ELSE NotApplied
    /\ sdec' = StunDecoder_new(b)
    /\ cdec' = StunHeader_from_bytes(b)

\* MessageHeader::encode_with_length into an empty buffer, then decode the result
HeaderRoundTrip ==
    /\ sdec = NotApplied
    /\ \E i \in HeaderInputs :
        /\ hin' = i
        /\ Decode(encode_with_length(i.header, <<>>, i.length))
        /\ UNCHANGED <<sessVars, encVars, decVars, addrVars, replayVars, driverVars, diagVars>>

\* decode a given byte slice
DecodeBytes ==
    /\ sdec = NotApplied
    /\ \E b \in RawMessages :
        /\ hin' = NoInput
        /\ Decode(b)
        /\ UNCHANGED <<sessVars, encVars, decVars, addrVars, replayVars, driverVars, diagVars>>

NextHeader == HeaderRoundTrip \/ DecodeBytes

----------------------------------------------------------------------------
(* std::net::SocketAddr as the codecs use it.                              *)

\* SocketAddr::V4(SocketAddrV4 { ip, port })
V4(ip, port) == [variant |-> "V4", ip |-> ip, port |-> port]

\* SocketAddr::V6(SocketAddrV6 { ip, port, flowinfo, scope_id })
V6(ip, port, flowinfo, scope_id) ==
    [variant |-> "V6", ip |-> ip, port |-> port, flowinfo |-> flowinfo, scope_id |-> scope_id]

\* SocketAddr::new(ip, port): an IPv6 address gets flowinfo 0 and scope_id 0
SocketAddr_new(ip, port) == IF Len(ip) = 4 THEN V4(ip, port) ELSE V6(ip, port, 0, 0)

\* Results of the value decoders; a panic is an outcome of its own.
Ok(v) == [kind |-> "Ok", value |-> v]

Err(e) == [kind |-> "Err", err |-> e]

Panic == [kind |-> "Panic"]

----------------------------------------------------------------------------
(* stunne-protocol/src/encodings/mapped_address.rs, change_request.rs and  *)
(* the MAPPED-ADDRESS parser of attributes.rs.                             *)

MAPPED_ADDRESS_HEADER_BYTES == 4

IPV4_FAMILY == 1

IPV6_FAMILY == 2

IPV4_BYTE_LENGTH == 4

IPV6_BYTE_LENGTH == 16

MAGIC_COOKIE_MSB == 8466

MAGIC_COOKIE_FULL == <<33, 18, 164, 66>>

CHANGE_IP == 4

CHANGE_PORT == 2

CHANGE_REQUEST_BYTES == 4

\* utils::xor: bytes ^= mask, byte by byte
xor(bytes, mask) == [i \in 1..Len(bytes) |-> BitXor(bytes[i], mask[i])]

\* MappedAddressEncoder::encode: the bytes appended to dst
MappedAddressEncoder_encode(addr) ==
    IF addr.variant = "V4"
    THEN <<0, IPV4_FAMILY>> \o to_be_bytes(addr.port) \o addr.ip
    ELSE <<0, IPV6_FAMILY>> \o to_be_bytes(addr.port) \o addr.ip

\* the masked address built by XorMappedAddressEncoder::encode and
\* XorMappedAddressDecoder::decode from addr.ip(), addr.port() and tx_id
xor_address(addr, tx_id) ==
    LET processed_ip == IF addr.variant = "V4"
                        THEN xor(addr.ip, MAGIC_COOKIE_FULL)
                        ELSE xor(addr.ip, MAGIC_COOKIE_FULL \o tx_id)
        processed_port == BitXor(addr.port, MAGIC_COOKIE_MSB)
    IN SocketAddr_new(processed_ip, processed_port)

\* XorMappedAddressEncoder::encode
XorMappedAddressEncoder_encode(addr, tx_id) ==
    MappedAddressEncoder_encode(xor_address(addr, tx_id))

\* Mutant: the address part is only required to be long enough.
parse_mapped_address_accepts_longer(bytes) ==
    IF Len(bytes) < MAPPED_ADDRESS_HEADER_BYTES THEN Err("UnexpectedEndOfSlice")
    ELSE LET s == split_at(bytes, MAPPED_ADDRESS_HEADER_BYTES)
             header_bytes == s.left
             address_bytes == s.right
             port == from_be_bytes(SubSeq(header_bytes, 3, 4))
         IN IF header_bytes[1] # 0 THEN Err("NonZeroFirstByte")
            ELSE IF header_bytes[2] = IPV4_FAMILY
            THEN IF Len(address_bytes) < IPV4_BYTE_LENGTH THEN Err("UnexpectedEndOfSlice")
                 ELSE Ok(SocketAddr_new(SubSeq(address_bytes, 1, IPV4_BYTE_LENGTH), port))
            ELSE IF header_bytes[2] = IPV6_FAMILY
            THEN IF Len(address_bytes) < IPV6_BYTE_LENGTH THEN Err("UnexpectedEndOfSlice")
                 ELSE Ok(SocketAddr_new(SubSeq(address_bytes, 1, IPV6_BYTE_LENGTH), port))
            ELSE Err("UnknownFamily")

\* encodings/mapped_address.rs parse_mapped_address
parse_mapped_address(bytes) ==
    IF Len(bytes) < MAPPED_ADDRESS_HEADER_BYTES THEN Err("UnexpectedEndOfSlice")
    ELSE LET s == split_at(bytes, MAPPED_ADDRESS_HEADER_BYTES)
             header_bytes == s.left
             address_bytes == s.right
             port == from_be_bytes(SubSeq(header_bytes, 3, 4))
         IN IF header_bytes[1] # 0 THEN Err("NonZeroFirstByte")
            ELSE IF header_bytes[2] = IPV4_FAMILY
            THEN IF Len(address_bytes) # IPV4_BYTE_LENGTH THEN Err("UnexpectedEndOfSlice")
                 ELSE Ok(SocketAddr_new(address_bytes, port))
            ELSE IF header_bytes[2] = IPV6_FAMILY
            THEN IF Len(address_bytes) # IPV6_BYTE_LENGTH THEN Err("UnexpectedEndOfSlice")
                 ELSE Ok(SocketAddr_new(address_bytes, port))
            ELSE Err("UnknownFamily")

\* Mutant: the decoder leaves the port as it is on the wire.
XorMappedAddressDecoder_decode_wire_port(tx_id, b) ==
    LET parsed == parse_mapped_address(b)
    IN IF parsed.kind # "Ok" THEN parsed
       ELSE Ok(SocketAddr_new(xor_address(parsed.value, tx_id).ip, parsed.value.port))

\* XorMappedAddressDecoder::decode
XorMappedAddressDecoder_decode(tx_id, b) ==
    LET parsed == parse_mapped_address(b)
    IN IF parsed.kind # "Ok" THEN parsed
       ELSE Ok(xor_address(parsed.value, tx_id))

\* attributes.rs parse_mapped_address: every index is taken without a length
\* check, so an index past the end of the slice panics
attributes_parse_mapped_address(bytes) ==
    IF Len(bytes) < 1 THEN Panic
    ELSE IF bytes[1] # 0 THEN Err("NonZeroFirstByte")
    ELSE IF Len(bytes) < 4 THEN Panic
    ELSE LET port == from_be_bytes(SubSeq(bytes, 3, 4))
         IN IF bytes[2] = 1
            THEN IF Len(bytes) < 8 THEN Panic
                 ELSE Ok(SocketAddr_new(SubSeq(bytes, 5, 8), port))
            ELSE IF bytes[2] = 2
            THEN IF Len(bytes) < 20 THEN Panic
                 ELSE Ok(SocketAddr_new(SubSeq(bytes, 5, 20), port))
            ELSE Err("UnknownFamily")

\* u32::from_be_bytes(b) & mask, for a mask below 2^31; the u32 is kept as its
\* four big-endian bytes
u32_and(b, mask) ==
    ((BitAnd(b[1], (mask \div 16777216) % 256) * 256
        + BitAnd(b[2], (mask \div 65536) % 256)) * 256
        + BitAnd(b[3], (mask \div 256) % 256)) * 256
        + BitAnd(b[4], mask % 256)

\* Mutant: change_port is read from bit 0x1.
ChangeRequestDecoder_decode_port_bit_0(b) ==
    IF Len(b) < CHANGE_REQUEST_BYTES THEN Err("UnexpectedEndOfData")
    ELSE IF Len(b) > CHANGE_REQUEST_BYTES THEN Err("InvalidDataSize")
    ELSE LET value == SubSeq(b, 1, 4)
         IN Ok([change_ip |-> u32_and(value, CHANGE_IP) # 0,
                change_port |-> u32_and(value, 1) # 0])

\* ChangeRequestDecoder::decode
ChangeRequestDecoder_decode(b) ==
    IF Len(b) < CHANGE_REQUEST_BYTES THEN Err("UnexpectedEndOfData")
    ELSE IF Len(b) > CHANGE_REQUEST_BYTES THEN Err("InvalidDataSize")
    ELSE LET value == SubSeq(b, 1, 4)
         IN Ok([change_ip |-> u32_and(value, CHANGE_IP) # 0,
                change_port |-> u32_and(value, CHANGE_PORT) # 0])

\* BufMut::put(src): b followed by the bytes of src
put(b, src) == b \o src

\* BufMut::put_u32: b followed by the four big-endian bytes of x
put_u32(b, x) ==
    b \o << (x \div 16777216) % 256, (x \div 65536) % 256, (x \div 256) % 256, x % 256 >>

\* Mutant: the two flag bits are swapped.
ChangeRequest_encode_swapped(self) ==
    LET v1 == IF self.change_ip THEN CHANGE_PORT ELSE 0
        value == IF self.change_port THEN v1 + CHANGE_IP ELSE v1
    IN put_u32(<<>>, value)

\* ChangeRequest::encode: the bytes appended to dst
ChangeRequest_encode(self) ==
    LET v1 == IF self.change_ip THEN CHANGE_IP ELSE 0
        value == IF self.change_port THEN v1 + CHANGE_PORT ELSE v1
    IN put_u32(<<>>, value)

----------------------------------------------------------------------------
(* stunne-protocol/src/encodings/mod.rs: the UTF-8 codec. A &str is the    *)
(* sequence of its Unicode scalar values.                                  *)

\* the UTF-8 bytes of one scalar value
char_as_bytes(c) ==
    IF c < 128 THEN <<c>>
    ELSE IF c < 2048 THEN <<192 + (c \div 64), 128 + (c % 64)>>
    ELSE IF c < 65536
    THEN <<224 + (c \div 4096), 128 + ((c \div 64) % 64), 128 + (c % 64)>>
    ELSE <<240 + (c \div 262144), 128 + ((c \div 4096) % 64),
           128 + ((c \div 64) % 64), 128 + (c % 64)>>

RECURSIVE as_bytes(_)
\* str::as_bytes
as_bytes(str) == IF str = <<>> THEN <<>> ELSE char_as_bytes(Head(str)) \o as_bytes(Tail(str))

\* impl AttributeEncoder for &str: the bytes appended to dst
str_encode(self) == put(<<>>, as_bytes(self))

\* a UTF-8 continuation byte
is_continuation(b) == b \in 128..191

\* the length of the well-formed UTF-8 sequence at the start of b, 0 if none
utf8_char_width(b) ==
    LET n == Len(b)
        b1 == b[1]
    IN IF b1 < 128 THEN 1
       ELSE IF b1 \in 194..223
       THEN IF n >= 2 /\ is_continuation(b[2]) THEN 2 ELSE 0
       ELSE IF b1 \in 224..239
       THEN IF /\ n >= 3
               /\ b[2] \in (IF b1 = 224 THEN 160..191 ELSE IF b1 = 237 THEN 128..159 ELSE 128..191)
               /\ is_continuation(b[3])
            THEN 3 ELSE 0
       ELSE IF b1 \in 240..244
       THEN IF /\ n >= 4
               /\ b[2] \in (IF b1 = 240 THEN 144..191 ELSE IF b1 = 244 THEN 128..143 ELSE 128..191)
               /\ is_continuation(b[3])
               /\ is_continuation(b[4])
            THEN 4 ELSE 0
       ELSE 0

\* the scalar value of a well-formed UTF-8 sequence of w bytes
utf8_char(b, w) ==
    IF w = 1 THEN b[1]
    ELSE IF w = 2 THEN (b[1] - 192) * 64 + (b[2] - 128)
    ELSE IF w = 3 THEN ((b[1] - 224) * 64 + (b[2] - 128)) * 64 + (b[3] - 128)
    ELSE (((b[1] - 240) * 64 + (b[2] - 128)) * 64 + (b[3] - 128)) * 64 + (b[4] - 128)

RECURSIVE from_utf8(_)
\* std::str::from_utf8: the string, or Utf8Error
from_utf8(b) ==
    IF b = <<>> THEN Ok(<<>>)
    ELSE LET w == utf8_char_width(b)
         IN IF w = 0 THEN Err("Utf8Error")
            ELSE LET rest == from_utf8(SubSeq(b, w + 1, Len(b)))
                 IN IF rest.kind # "Ok" THEN rest
                    ELSE Ok(<<utf8_char(b, w)>> \o rest.value)

\* Utf8Decoder::decode
Utf8Decoder_decode(b) == from_utf8(b)

----------------------------------------------------------------------------
(* Inputs of the attribute value codecs.                                   *)

TxIdV4Test == <<0, 1, 2, 3, 4, 5, 6, 7, 8, 9, 10, 11>>

TxIdV6Test == <<93, 220, 80, 217, 245, 143, 136, 253, 55, 179, 27, 193>>

TransactionIds == { TxIdV4Test, TxIdV6Test, TxId2 }

Ports == { 0, 1234, 8000, 8466, 40013, 48965, 65535 }

Ipv4Addrs == { <<127, 0, 0, 1>>, <<1, 2, 3, 4>>, <<0, 0, 0, 0>>, <<33, 18, 164, 66>> }

Ipv6Addrs ==
    { <<0, 0, 0, 0, 0, 0, 0, 0, 0, 0, 0, 0, 0, 0, 0, 0>>,
      <<0, 0, 0, 0, 0, 0, 0, 0, 0, 0, 0, 0, 0, 0, 0, 1>>,
      <<1, 2, 3, 4, 5, 6, 7, 8, 9, 10, 11, 12, 13, 14, 15, 16>>,
      <<254, 128, 0, 0, 0, 0, 0, 0, 0, 0, 0, 0, 0, 0, 0, 1>> }

\* Socket addresses: IPv4, and IPv6 with and without flowinfo and scope_id.
SocketAddrs ==
    { V4(ip, p) : ip \in Ipv4Addrs, p \in Ports }
    \cup { V6(ip, p, f, sc) : ip \in Ipv6Addrs, p \in Ports, f \in {0, 1}, sc \in {0, 2} }

AddressInputs == { [addr |-> a, tx_id |-> t] : a \in SocketAddrs, t \in TransactionIds }

ValueTail ==
    <<37, 192, 32, 16, 167, 70, 88, 218, 87, 209, 252, 133, 131, 241, 58, 189, 20, 209, 9>>

\* All ChangeRequest values.
ChangeRequests == [change_ip : BOOLEAN, change_port : BOOLEAN]

\* Scalar values at the edges of the one- to four-byte UTF-8 forms.
Chars == { 0, 116, 127, 128, 2047, 2048, 55295, 57344, 65535, 65536, 78081, 1114111 }

\* Strings of at most two scalar values, and "test".
Strings ==
    { <<>>, <<116, 101, 115, 116>> }
    \cup { <<c>> : c \in Chars } \cup { <<c1, c2>> : c1 \in Chars, c2 \in Chars }

\* 4-byte values: every combination of the three low bits, with the other
\* bits clear or set.
ChangeRequestValues ==
    { <<a, b, c, f>> :
        a \in {0, 128, 255}, b \in {0, 255}, c \in {0, 255}, f \in (0..7) \cup (248..255) }

\* Value slices of every length 0..21: zero or non-zero first byte, families
\* IPv4, IPv6 and unknown, cut short, exact or too long.
ValueSlices ==
    { SubSeq(<<b0, family>> \o ValueTail, 1, n) :
        b0 \in {0, 1}, family \in {1, 2, 3}, n \in 0..21 }
    \cup ChangeRequestValues

----------------------------------------------------------------------------
(* The attribute value codecs applied to one input per behaviour.          *)

NoSocketAddr == [variant |-> "None"]

NoAddress == [addr |-> NoSocketAddr, tx_id |-> <<>>]

NotDecoded == [kind |-> "NotApplied"]

NoValue == [codec |-> "None"]

AddressInit ==
    /\ ain = NoAddress
    /\ araw = <<>>
    /\ attr_parsed = NotDecoded
    /\ enc_parsed = NotDecoded
    /\ xor_decoded = NotDecoded
    /\ cr_decoded = NotDecoded
    /\ utf8_decoded = NotDecoded
    /\ vin = NoValue

\* hand the value bytes to each of the value decoders
DecodeValue(tx_id, b) ==
    /\ araw' = b
    /\ attr_parsed' = attributes_parse_mapped_address(b)
    /\ enc_parsed' = parse_mapped_address(b)
    /\ xor_decoded' = XorMappedAddressDecoder_decode(tx_id, b)
    /\ cr_decoded' = ChangeRequestDecoder_decode(b)
    /\ utf8_decoded' = Utf8Decoder_decode(b)

\* XorMappedAddressEncoder(addr, tx_id).encode into an empty buffer, then decode
XorRoundTrip ==
    /\ enc_parsed = NotDecoded
    /\ \E i \in AddressInputs :
        /\ ain' = i
        /\ DecodeValue(i.tx_id, XorMappedAddressEncoder_encode(i.addr, i.tx_id))
        /\ UNCHANGED <<vin, sessVars, encVars, decVars, hdrVars, replayVars, driverVars, diagVars>>

\* decode a given value slice
DecodeSlice ==
    /\ enc_parsed = NotDecoded
    /\ \E b \in ValueSlices, t \in TransactionIds :
        /\ ain' = [addr |-> NoSocketAddr, tx_id |-> t]
        /\ DecodeValue(t, b)
        /\ UNCHANGED <<vin, sessVars, encVars, decVars, hdrVars, replayVars, driverVars, diagVars>>

\* MappedAddressEncoder(addr).encode into an empty buffer, then decode
MappedRoundTrip ==
    /\ enc_parsed = NotDecoded
    /\ \E a \in SocketAddrs :
        /\ vin' = [codec |-> "MappedAddress", value |-> a]
        /\ ain' = [addr |-> NoSocketAddr, tx_id |-> TxIdV4Test]
        /\ DecodeValue(TxIdV4Test, MappedAddressEncoder_encode(a))
        /\ UNCHANGED <<sessVars, encVars, decVars, hdrVars, replayVars, driverVars, diagVars>>

\* ChangeRequest.encode into an empty buffer, then decode
ChangeRequestRoundTrip ==
    /\ enc_parsed = NotDecoded
    /\ \E cr \in ChangeRequests :
        /\ vin' = [codec |-> "ChangeRequest", value |-> cr]
        /\ ain' = [addr |-> NoSocketAddr, tx_id |-> TxIdV4Test]
        /\ DecodeValue(TxIdV4Test, ChangeRequest_encode(cr))
        /\ UNCHANGED <<sessVars, encVars, decVars, hdrVars, replayVars, driverVars, diagVars>>

\* <&str>.encode into an empty buffer, then decode
Utf8RoundTrip ==
    /\ enc_parsed = NotDecoded
    /\ \E str \in Strings :
        /\ vin' = [codec |-> "Utf8", value |-> str]
        /\ ain' = [addr |-> NoSocketAddr, tx_id |-> TxIdV4Test]
        /\ DecodeValue(TxIdV4Test, str_encode(str))
        /\ UNCHANGED <<sessVars, encVars, decVars, hdrVars, replayVars, driverVars, diagVars>>

NextAddress ==
    XorRoundTrip \/ DecodeSlice \/ MappedRoundTrip \/ ChangeRequestRoundTrip \/ Utf8RoundTrip

----------------------------------------------------------------------------
(* stunne-diagnostics/src/main.rs: run_session over a channel, the sender  *)
(* task and the timers, as interleaved steps.                              *)

\* The last Instant of a run.
MaxInstant == 7

\* main.rs has its own TIMEOUT_SECS, also 3 seconds
Diagnostics_TIMEOUT_SECS == 3

\* the sleep of the spawned task before it uses the sender
SENDER_SLEEP_SECS == 1

None == [some |-> FALSE]

Some(t) == [some |-> TRUE, t |-> t]

Done == [tag |-> "Done"]

Continue(d) == [tag |-> "Continue", duration |-> d]

TimeoutOccurred == "TimeoutOccurred"

Running == [kind |-> "Running"]

\* DetermineNatMappingSession::new
DetermineNatMappingSession_new == [timeout |-> None, received |-> FALSE]

\* DetermineNatMappingSession::proceed: the session after the call and what it returns
proceed(self, now) ==
    IF self.received THEN [self |-> self, ret |-> Ok(Done)]
    ELSE IF self.timeout.some /\ self.timeout.t <= now
    THEN [self |-> self, ret |-> Err(TimeoutOccurred)]
    ELSE IF self.timeout.some
    THEN [self |-> self, ret |-> Ok(Continue(self.timeout.t - now))]
    ELSE [self |-> [self EXCEPT !.timeout = Some(now + Diagnostics_TIMEOUT_SECS)],
          ret |-> Ok(Continue(Diagnostics_TIMEOUT_SECS))]

\* DetermineNatMappingSession::recv
recv(self) == [self EXCEPT !.received = TRUE]

\* mpsc::channel::<()>(10): nothing queued, the sender alive
channel == [queued |-> 0, closed |-> FALSE]

DiagnosticsInit ==
    /\ instant = 0
    /\ sess = DetermineNatMappingSession_new
    /\ run_pc = "proceed"
    /\ timeout = 0
    /\ sleep_until = 0
    /\ result = Running
    /\ incoming = channel
    /\ sender_pc = "sleep"
    /\ delivered = FALSE

\* time passes
Tick ==
    /\ instant < MaxInstant
    /\ instant' = instant + 1
    /\ UNCHANGED <<restVars, sess, run_pc, timeout, sleep_until, result, incoming, sender_pc,
                   delivered>>

\* run_session: match sess.proceed(Instant::now())
RunProceed ==
    /\ run_pc = "proceed"
    /\ LET r == proceed(sess, instant) IN
        /\ sess' = r.self
        /\ IF r.ret.kind = "Err"
           THEN result' = Err(r.ret.err) /\ run_pc' = "returned" /\ UNCHANGED timeout
           ELSE IF r.ret.value = Done
           THEN result' = Ok(<<>>) /\ run_pc' = "returned" /\ UNCHANGED timeout
           ELSE timeout' = r.ret.value.duration /\ run_pc' = "sleep" /\ UNCHANGED result
    /\ UNCHANGED <<restVars, instant, sleep_until, incoming, sender_pc, delivered>>

\* run_session: incoming.recv() and sleep(timeout) are made and pinned
RunSleep ==
    /\ run_pc = "sleep"
    /\ sleep_until' = instant + timeout
    /\ run_pc' = "select"
    /\ UNCHANGED <<restVars, instant, sess, timeout, result, incoming, sender_pc,
                   delivered>>

\* select!: recv_fut is ready with Some(()) or, on a closed and empty channel,
\* with None; the pattern _ takes both and sess.recv() runs
SelectRecv ==
    /\ run_pc = "select"
    /\ incoming.queued > 0 \/ incoming.closed
    /\ IF incoming.queued > 0
       THEN incoming' = [incoming EXCEPT !.queued = @ - 1] /\ delivered' = TRUE
       ELSE UNCHANGED <<incoming, delivered>>
    /\ sess' = recv(sess)
    /\ run_pc' = "proceed"
    /\ UNCHANGED <<restVars, instant, timeout, sleep_until, result, sender_pc>>

\* select!: timeout_fut is ready
SelectTimeout ==
    /\ run_pc = "select"
    /\ instant >= sleep_until
    /\ run_pc' = "proceed"
    /\ UNCHANGED <<restVars, instant, sess, timeout, sleep_until, result, incoming, sender_pc,
                   delivered>>

\* the spawned task: sleep(1 s).await is over
SenderWake ==
    /\ sender_pc = "sleep"
    /\ instant >= SENDER_SLEEP_SECS
    /\ sender_pc' = "send"
    /\ UNCHANGED <<restVars, instant, sess, run_pc, timeout, sleep_until, result, incoming,
                   delivered>>

\* the spawned task as main has it: send.send(()) makes a future that is
\* never awaited, so nothing is put on the channel
SenderSendNotAwaited ==
    /\ sender_pc = "send"
    /\ sender_pc' = "end"
    /\ UNCHANGED <<restVars, instant, sess, run_pc, timeout, sleep_until, result, incoming,
                   delivered>>

\* the spawned task ends: send is dropped and the channel is closed
SenderEnd ==
    /\ sender_pc = "end"
    /\ incoming' = [incoming EXCEPT !.closed = TRUE]
    /\ sender_pc' = "done"
    /\ UNCHANGED <<restVars, instant, sess, run_pc, timeout, sleep_until, result,
                   delivered>>

NextDiagnostics ==
    \/ Tick
    \/ RunProceed
    \/ RunSleep
    \/ SelectRecv
    \/ SelectTimeout
    \/ SenderWake
    \/ SenderSendNotAwaited
    \/ SenderEnd

----------------------------------------------------------------------------
(* Specifications.                                                         *)

Init ==
    /\ SessionInit /\ CodecInit /\ HeaderInit /\ AddressInit /\ ReplayInit /\ DriverInit
    /\ DiagnosticsInit

\* The session driven by arbitrary events; the codec is not used.
SpecSession == Init /\ [][NextSession]_vars

\* The codec: encode, decode and iterate; the session is not stepped.
SpecCodec == Init /\ [][NextCodec]_vars

\* The header codec and the decoders' entry checks, applied to chosen inputs.
SpecHeader == Init /\ [][NextHeader]_vars

\* The attribute value codecs, applied to chosen inputs.
SpecAddress == Init /\ [][NextAddress]_vars

\* A recorded session and its replay.
SpecReplay == Init /\ [][NextReplay]_vars

\* The diagnostics program: run_session, the sender task and the clock.
SpecDiagnostics == Init /\ [][NextDiagnostics]_vars

\* A session run by the driver loop; the loop never stops before it returns.
SpecDriver == Init /\ [][NextDriver]_vars /\ WF_vars(NextDriver)


----------------------------------------------------------------------------
(* Claims about the DetermineMapping session (checked under SpecSession).  *)

\* C1: from FirstPacketSent{t}, process(Idle{now}) with now >= t, the boundary
\* now = t included, gives Complete{Err(UnexpectedTimeout)} and outgoing None.
C1_TimeoutAtOrAfterDeadline ==
    (event.tag = "Idle" /\ pre.tag = "FirstPacketSent" /\ event.now >= pre.timeout_at)
        => (state = Complete(Err_UnexpectedTimeout) /\ outgoing = "None")

\* C2: from Initial, process(Idle{t0}) gives FirstPacketSent{t0 + 3 seconds}
\* and outgoing FirstAttempt, for every t0.
C2_FirstIdleSendsFirstAttempt ==
    (event.tag = "Idle" /\ pre = Initial)
        => (state = FirstPacketSent(event.now + 3) /\ outgoing = "FirstAttempt")

C2_Witness ==
    /\ event.tag = "Idle" /\ pre = Initial
    /\ event.now = 4 /\ state = FirstPacketSent(7) /\ outgoing = "FirstAttempt"

\* C3: from FirstPacketSent{_}, process(DatagramReceived{bytes}) gives
\* Complete{Ok(EndpointIndependent)} and outgoing None, whatever the bytes are
\* and whether or not an Idle at or after the deadline was seen before.
C3_DatagramCompletesOk ==
    (event.tag = "DatagramReceived" /\ pre.tag = "FirstPacketSent")
        => (state = Complete(Ok_EndpointIndependent) /\ outgoing = "None")

\* an empty datagram, delivered after an Idle that carried the deadline itself
C3_Witness ==
    /\ event.tag = "DatagramReceived" /\ pre.tag = "FirstPacketSent"
    /\ Len(event.bytes) = 0
    /\ clock >= pre.timeout_at
    /\ state = Complete(Ok_EndpointIndependent)

\* C4: Complete is absorbing: a process call on Complete{result} leaves the
\* session in the same Complete{result} and returns outgoing None.
C4_CompleteAbsorbing ==
    [][state.tag = "Complete" => (state' = state /\ outgoing' = "None")]_vars

\* both events have been processed on a session that had timed out
C4_Witness ==
    /\ pre = Complete(Err_UnexpectedTimeout)
    /\ event.tag = "DatagramReceived"
    /\ state = Complete(Err_UnexpectedTimeout)

\* C5: Initial with DatagramReceived stays Initial, FirstPacketSent{t} with
\* Idle{now}, now < t, stays FirstPacketSent{t}; both return outgoing None.
C5_NoOpRows ==
    /\ (event.tag = "DatagramReceived" /\ pre = Initial)
            => (state = Initial /\ outgoing = "None")
    /\ (event.tag = "Idle" /\ pre.tag = "FirstPacketSent" /\ event.now < pre.timeout_at)
            => (state = pre /\ outgoing = "None")

C5_Witness ==
    /\ event.tag = "Idle" /\ pre.tag = "FirstPacketSent"
    /\ event.now < pre.timeout_at
    /\ state = pre /\ outgoing = "None"


----------------------------------------------------------------------------
(* Claims about the message codec (checked under SpecCodec).               *)

\* The message was produced by the encoder and its iterator is in use.
DecodingEncoded == stage = "StunAttributeIterator" /\ decoder.ok

\* L + ((4 - L mod 4) mod 4), the padded length of a value of L bytes
PaddedLength(L) == L + ((4 - (L % 4)) % 4)

\* the value length stated by the TLV header at offset start of the source
StatedLength(start) == source[start + 3] * 256 + source[start + 4]

RECURSIVE AppendedBytes(_)
\* sum of 4 + value length + padding over the attributes added so far
AppendedBytes(as) ==
    IF as = <<>> THEN 0
    ELSE 4 + PaddedLength(Len(Head(as).data)) + AppendedBytes(Tail(as))

\* C6: encoding any sequence of attributes whose attribute section is at most
\* 65535 bytes and iterating over the decoded message yields the same (type,
\* value) pairs in order, without padding bytes, and then end-of-sequence.
C6_EncodeDecodeRoundTrip ==
    (DecodingEncoded /\ Len(buf) <= 65535) =>
        \A i \in 1..Len(results) :
            /\ i <= Len(added) =>
                    results[i].ret = ItemOk(added[i].attribute_type, added[i].data)
            /\ i > Len(added) => results[i].ret = ItemNone

\* C7: a step that yields an attribute of stated length L whose padded value
\* is present yields {type, the L bytes after the TLV header} and leaves the
\* next attribute at offset 4 + 4 * ceil(L / 4) from the start of this one.
C7_StepAdvancesPastPadding ==
    stage = "StunAttributeIterator" =>
        \A i \in 1..Len(results) :
            LET r == results[i] IN
            (/\ r.ret.kind = "Ok"
             /\ Len(source) - r.start - 4 >= PaddedLength(StatedLength(r.start)))
            => LET L == StatedLength(r.start) IN
                /\ r.ret.attribute_type = source[r.start + 1] * 256 + source[r.start + 2]
                /\ r.ret.data = SubSeq(source, r.start + 5, r.start + 4 + L)
                /\ r.next = r.start + 4 + 4 * ((L + 3) \div 4)

\* C8: after next() has yielded an error, every later call returns None, and
\* at most one error is ever yielded.
C8_IteratorPoisoned ==
    stage = "StunAttributeIterator" =>
        \A i, j \in 1..Len(results) :
            (i < j /\ results[i].ret.kind = "Err") => results[j].ret = ItemNone

\* an error was yielded, after an attribute, and the call after it returned None
C8_Witness ==
    /\ stage = "StunAttributeIterator"
    /\ Len(results) >= 3
    /\ results[1].ret.kind = "Ok"
    /\ results[2].ret = ItemErr
    /\ results[3].ret = ItemNone
    /\ Len(source) - results[2].start >= 4

\* C9: when fewer bytes than the padded length P follow a 4-byte TLV header
\* (the value present but its padding missing included), or when a non-empty
\* remainder is shorter than 4 bytes, next() yields the error and empties data.
C9_TruncatedAttributeIsError ==
    stage = "StunAttributeIterator" =>
        \A i \in 1..Len(results) :
            LET r == results[i]
                remaining == Len(source) - r.start
            IN /\ (remaining >= 4 /\ remaining - 4 < PaddedLength(StatedLength(r.start)))
                    => (r.ret = ItemErr /\ r.next = Len(source))
               /\ (remaining > 0 /\ remaining < 4)
                    => (r.ret = ItemErr /\ r.next = Len(source))

\* C10: finish() returns header || attributes, 20 + L bytes long, where L, the
\* bytes appended by the add_attribute calls, is a multiple of 4 and is the
\* value of the header's length field; without attributes it is the 20 header
\* bytes with length 0.
C10_FinishLengthField ==
    stage \in {"Bytes", "StunDecoder", "StunAttributeIterator"} /\ header # NoHeader =>
        LET L == AppendedBytes(added) IN
        /\ Len(message) = 20 + L
        /\ L % 4 = 0
        /\ SubSeq(message, 21, Len(message)) = buf
        /\ SubSeq(message, 1, 2) = encode_message_type(header.class, header.method)
        /\ SubSeq(message, 5, 20) = MAGIC_COOKIE \o header.tx_id
        /\ message[3] * 256 + message[4] = L
        /\ (added = <<>> => Len(message) = 20 /\ message[3] = 0 /\ message[4] = 0)


\* the attributes whose value length fits the 16-bit TLV length field
RECURSIVE Encodable(_)
Encodable(as) ==
    IF as = <<>> THEN <<>>
    ELSE IF Len(Head(as).data) <= 65535
         THEN <<Head(as)>> \o Encodable(Tail(as))
         ELSE Encodable(Tail(as))

\* C11: add_attribute refuses a value longer than 65535 bytes: the call
\* appends nothing, so no TLV header with a truncated length is ever written.
C11_OversizeValueRefused ==
    stage = "StunAttributeEncoder" =>
        /\ Len(buf) = AppendedBytes(Encodable(added))
        /\ next_attribute_byte = Len(buf)

\* the bytes one add_attribute call is to append: type, length, value, zeros
TLV(a) ==
    LET len == Len(a.data) IN
    << a.attribute_type \div 256, a.attribute_type % 256 >>
        \o << len \div 256, len % 256 >>
        \o a.data
        \o [i \in 1..((4 - (len % 4)) % 4) |-> 0]

RECURSIVE TLVs(_)
TLVs(as) == IF as = <<>> THEN <<>> ELSE TLV(Head(as)) \o TLVs(Tail(as))

\* C12: after any number of add_attribute calls the attribute buffer is, in
\* call order, the concatenation of: type (2 bytes big-endian), the value
\* length len (2 bytes big-endian), the len value bytes, (4 - len mod 4) mod 4
\* zero bytes; so each call appends exactly that after the earlier bytes.
C12_AddAttributeAppendsTLV ==
    stage = "StunAttributeEncoder" =>
        /\ buf = TLVs(added)
        /\ \A i \in 1..Len(buf) : buf[i] \in 0..255

----------------------------------------------------------------------------
(* Claims about the header codec and the decoders' entry checks.           *)

\* The header that the first 20 bytes of a message decode to.
HeaderOf(b) == decode_with_length(SubSeq(b, 1, STUN_HEADER_BYTES))

\* A decoder's result is the given error.
Fails(r, e) == ~r.ok /\ r.err = e

\* C13: for a message whose 20-byte header is well formed, the message decoder
\* compares the stated data_length with the number of bytes after the header:
\* stated larger gives LengthExceedsSlice, stated smaller gives
\* SliceExceedsLength, and only equality is accepted. Stated here for both
\* message decoders, StunDecoder::new and the client's StunHeader::from_bytes.
C13_LengthCrossValidated ==
    (sdec # NotApplied /\ Len(hraw) >= STUN_HEADER_BYTES /\ HeaderOf(hraw).ok) =>
        LET stated == HeaderOf(hraw).length
            follows == Len(hraw) - STUN_HEADER_BYTES
        IN /\ stated > follows =>
                Fails(sdec, "LengthExceedsSlice") /\ Fails(cdec, "LengthExceedsSlice")
           /\ stated < follows =>
                Fails(sdec, "SliceExceedsLength") /\ Fails(cdec, "SliceExceedsLength")
           /\ stated = follows => sdec.ok /\ cdec.ok

\* The part of C13 that the client's parser satisfies on its own.
C13_ClientCrossValidates ==
    (sdec # NotApplied /\ Len(hraw) >= STUN_HEADER_BYTES /\ HeaderOf(hraw).ok) =>
        LET stated == HeaderOf(hraw).length
            follows == Len(hraw) - STUN_HEADER_BYTES
        IN /\ stated > follows => Fails(cdec, "LengthExceedsSlice")
           /\ stated < follows => Fails(cdec, "SliceExceedsLength")
           /\ stated = follows => cdec.ok

\* C15: StunDecoder::new returns UnexpectedEndOfData for every slice of fewer
\* than 20 bytes, whatever its contents: starting bits or a wrong cookie in
\* the bytes that are present are not looked at.
C15_ShortSliceUnexpectedEnd ==
    (sdec # NotApplied /\ Len(hraw) < STUN_HEADER_BYTES) =>
        Fails(sdec, "UnexpectedEndOfData")

\* A 19-byte slice with starting bits set and a wrong cookie was refused as too short.
C15_Witness ==
    /\ Len(hraw) = 19
    /\ BitAnd(hraw[1], 192) # 0
    /\ SubSeq(hraw, 5, 8) # MAGIC_COOKIE
    /\ Fails(sdec, "UnexpectedEndOfData")

\* Either of the two most significant bits of byte 0 is set.
StartingBitsSet(b) == b[1] >= 64

\* C16: header decoding checks in a fixed order. A 20-byte header with a
\* starting bit set gives NonZeroStartingBits even when the cookie is wrong
\* too; InvalidMagicCookie is given exactly when those bits are clear and
\* bytes 4..8 are not the magic cookie; a type-field error can only be given
\* when both checks passed. StunDecoder::new reports the same error.
C16_HeaderCheckOrder ==
    (sdec # NotApplied /\ Len(hraw) = STUN_HEADER_BYTES) =>
        /\ StartingBitsSet(hraw) => Fails(hdec, "NonZeroStartingBits")
        /\ Fails(hdec, "InvalidMagicCookie")
             <=> (~StartingBitsSet(hraw) /\ SubSeq(hraw, 5, 8) # MAGIC_COOKIE)
        /\ (~hdec.ok /\ hdec.err \in {"InvalidMessageClass", "InvalidMessageMethod"})
             => (~StartingBitsSet(hraw) /\ SubSeq(hraw, 5, 8) = MAGIC_COOKIE)
        /\ ~hdec.ok => sdec = hdec

\* A header with a starting bit set and a wrong cookie was refused for the bits.
C16_Witness ==
    /\ Len(hraw) = STUN_HEADER_BYTES
    /\ StartingBitsSet(hraw)
    /\ SubSeq(hraw, 5, 8) # MAGIC_COOKIE
    /\ Fails(hdec, "NonZeroStartingBits")
    /\ Fails(sdec, "NonZeroStartingBits")

\* C17: in a 20-byte header whose starting bits are clear, any value of bytes
\* 4..8 other than the magic cookie gives InvalidMagicCookie; each of the 32
\* single-bit flips of the cookie is such a value.
C17_AnyOtherCookieRejected ==
    /\ \A x \in 0..31 : FlipCookieBit(x) # MAGIC_COOKIE
    /\ (sdec # NotApplied /\ Len(hraw) = STUN_HEADER_BYTES /\ ~StartingBitsSet(hraw)
          /\ SubSeq(hraw, 5, 8) # MAGIC_COOKIE)
        => Fails(hdec, "InvalidMagicCookie")

\* The cookie with its lowest bit flipped was refused.
C17_Witness ==
    /\ Len(hraw) = STUN_HEADER_BYTES
    /\ ~StartingBitsSet(hraw)
    /\ SubSeq(hraw, 5, 8) = FlipCookieBit(0)
    /\ SubSeq(hraw, 5, 8) = <<33, 18, 164, 67>>
    /\ Fails(hdec, "InvalidMagicCookie")

\* C18: for every header h and 16-bit data_length L, encode_with_length writes
\* exactly 20 bytes, the type, L big-endian, the magic cookie and the
\* transaction id, and decode_with_length of those bytes returns (h, L).
C18_HeaderRoundTrip ==
    hin # NoInput =>
        /\ Len(hraw) = 20
        /\ \A k \in 1..20 : hraw[k] \in 0..255
        /\ SubSeq(hraw, 1, 2) = encode_message_type(hin.header.class, hin.header.method)
        /\ hraw[3] * 256 + hraw[4] = hin.length
        /\ SubSeq(hraw, 5, 8) = <<33, 18, 164, 66>>
        /\ SubSeq(hraw, 9, 20) = hin.header.tx_id
        /\ hdec = [ok |-> TRUE, header |-> hin.header, length |-> hin.length]

\* An ErrorResponse header with method 4095 and length 0x1234 went through.
C18_Witness ==
    /\ hin # NoInput
    /\ hin.header.class = "ErrorResponse"
    /\ hin.header.method = 4095
    /\ hin.length = 4660
    /\ hraw[3] = 18 /\ hraw[4] = 52
    /\ hdec.ok /\ hdec.header = hin.header /\ hdec.length = 4660

\* C19: for every class and every method in 0..4095, decode_message_type of
\* encode_message_type(class, method) is (class, method); the encoded 16-bit
\* value has its two most significant bits zero, bit 1 of the class value at
\* bit 8 and bit 0 of the class value at bit 4.
C19_MessageTypeRoundTrip ==
    hin # NoInput =>
        LET class == hin.header.class
            method == hin.header.method
            encoded == SubSeq(hraw, 1, 2)
            value == encoded[1] * 256 + encoded[2]
            class_value == class_to_u16(class)
        IN /\ encoded = encode_message_type(class, method)
           /\ decode_message_type(encoded) = [ok |-> TRUE, class |-> class, method |-> method]
           /\ value < 16384
           /\ (value \div 256) % 2 = class_value \div 2
           /\ (value \div 16) % 2 = class_value % 2

\* A Binding success response (class 0b10, method 1) was encoded as 0x0101,
\* and an Indication with method 4095 as 0x3EFF.
C19_Witness ==
    /\ hin # NoInput
    /\ \/ /\ hin.header.class = "SuccessResponse"
          /\ hin.header.method = 1
          /\ SubSeq(hraw, 1, 2) = <<1, 1>>
       \/ /\ hin.header.class = "Indication"
          /\ hin.header.method = 4095
          /\ SubSeq(hraw, 1, 2) = <<62, 255>>
    /\ hdec.ok /\ hdec.header.class = hin.header.class
    /\ hdec.header.method = hin.header.method

----------------------------------------------------------------------------
(* Claims about the attribute value codecs.                                *)

\* A decoder returned a value or an error.
Returned(r) == r.kind \in {"Ok", "Err"}

\* C14: no decoder panics: for a value slice of any length the
\* MAPPED-ADDRESS parsers, the XOR-MAPPED-ADDRESS decoder and the
\* CHANGE-REQUEST decoder each return a value or an error.
C14_DecodersNeverPanic ==
    enc_parsed # NotDecoded =>
        /\ Returned(attr_parsed)
        /\ Returned(enc_parsed)
        /\ Returned(xor_decoded)
        /\ Returned(cr_decoded)

\* The part of C14 that holds: the decoders of encodings/ check the length
\* before every index.
C14_EncodingsNeverPanic ==
    enc_parsed # NotDecoded =>
        /\ Returned(enc_parsed)
        /\ Returned(xor_decoded)
        /\ Returned(cr_decoded)

\* The XOR-MAPPED-ADDRESS wire layout of an address: zero byte, family, the
\* port XOR 0x2112, the IPv4 octets XOR the cookie or the IPv6 octets XOR the
\* 16 bytes cookie || transaction id.
XorLayout(addr, tx_id, b) ==
    LET mask == <<33, 18, 164, 66>> \o tx_id
        n == Len(addr.ip)
    IN /\ Len(b) = 4 + n
       /\ b[1] = 0
       /\ b[2] = (IF addr.variant = "V4" THEN 1 ELSE 2)
       /\ b[3] * 256 + b[4] = BitXor(addr.port, 8466)
       /\ \A k \in 1..n : b[4 + k] = BitXor(addr.ip[k], mask[k])

\* C20 as stated: for every socket address addr and transaction id tid,
\* decoding with tid the bytes encoded from (addr, tid) returns addr, and the
\* bytes have the XOR-MAPPED-ADDRESS layout.
C20_XorRoundTripEveryAddress ==
    ain.addr.variant # "None" =>
        /\ XorLayout(ain.addr, ain.tx_id, araw)
        /\ xor_decoded = Ok(ain.addr)

\* C20, amended: the bytes have the XOR-MAPPED-ADDRESS layout, and decoding
\* returns the address with the same IP address and port, built by
\* SocketAddr::new; that is addr itself for every IPv4 address and for every
\* IPv6 address whose flowinfo and scope_id are zero.
C20_XorRoundTrip ==
    ain.addr.variant # "None" =>
        /\ XorLayout(ain.addr, ain.tx_id, araw)
        /\ xor_decoded = Ok(SocketAddr_new(ain.addr.ip, ain.addr.port))
        /\ (ain.addr.variant = "V4" \/ (ain.addr.flowinfo = 0 /\ ain.addr.scope_id = 0))
             => xor_decoded = Ok(ain.addr)

\* [::1]:40013 with the transaction id 5DDC50D9F58F88FD37B31BC1 was encoded
\* as 00 02 BD 5F 21 12 A4 42 5D DC 50 D9 F5 8F 88 FD 37 B3 1B C0 and decoded
\* to itself.
C20_Witness ==
    /\ ain = [addr |-> V6(<<0, 0, 0, 0, 0, 0, 0, 0, 0, 0, 0, 0, 0, 0, 0, 1>>, 40013, 0, 0),
              tx_id |-> TxIdV6Test]
    /\ araw = <<0, 2, 189, 95, 33, 18, 164, 66,
                93, 220, 80, 217, 245, 143, 136, 253, 55, 179, 27, 192>>
    /\ xor_decoded = Ok(ain.addr)

\* C21: MAPPED-ADDRESS decoding rejects malformed values with the stated
\* error: fewer than 4 bytes gives UnexpectedEndOfSlice; with at least 4
\* bytes, a non-zero first byte gives NonZeroFirstByte; with a zero first
\* byte, a family other than 1 and 2 gives UnknownFamily, and family 1 with an
\* address part not of exactly 4 bytes or family 2 with one not of exactly 16
\* bytes (shorter or longer) gives UnexpectedEndOfSlice; anything else decodes.
C21_MappedAddressErrors ==
    enc_parsed # NotDecoded =>
        LET n == Len(araw)
        IN /\ n < 4 => enc_parsed = Err("UnexpectedEndOfSlice")
           /\ (n >= 4 /\ araw[1] # 0) => enc_parsed = Err("NonZeroFirstByte")
           /\ (n >= 4 /\ araw[1] = 0 /\ araw[2] \notin {1, 2})
                => enc_parsed = Err("UnknownFamily")
           /\ (n >= 4 /\ araw[1] = 0 /\ araw[2] = 1 /\ n - 4 # 4)
                => enc_parsed = Err("UnexpectedEndOfSlice")
           /\ (n >= 4 /\ araw[1] = 0 /\ araw[2] = 2 /\ n - 4 # 16)
                => enc_parsed = Err("UnexpectedEndOfSlice")
           /\ (n >= 4 /\ araw[1] = 0 /\ ((araw[2] = 1 /\ n = 8) \/ (araw[2] = 2 /\ n = 20)))
                => enc_parsed.kind = "Ok"

\* An IPv6 value with one byte too many was refused.
C21_Witness ==
    /\ Len(araw) = 21
    /\ araw[1] = 0
    /\ araw[2] = 2
    /\ enc_parsed = Err("UnexpectedEndOfSlice")

\* C22: CHANGE-REQUEST decoding accepts only values of exactly 4 bytes: a
\* shorter slice gives UnexpectedEndOfData, a longer one InvalidDataSize; for
\* 4 bytes change_ip is true iff bit 0x4 is set and change_port iff bit 0x2 is
\* set, whatever the other 30 bits are.
C22_ChangeRequestDecode ==
    cr_decoded # NotDecoded =>
        LET n == Len(araw)
        IN /\ n < 4 => cr_decoded = Err("UnexpectedEndOfData")
           /\ n > 4 => cr_decoded = Err("InvalidDataSize")
           /\ n = 4 => cr_decoded = Ok([change_ip |-> (araw[4] \div 4) % 2 = 1,
                                        change_port |-> (araw[4] \div 2) % 2 = 1])

\* A value with every bit set except 0x2 decoded to change_ip without change_port.
C22_Witness ==
    /\ araw = <<255, 255, 255, 253>>
    /\ cr_decoded = Ok([change_ip |-> TRUE, change_port |-> FALSE])

\* The MAPPED-ADDRESS wire layout of an address: zero byte, family, port
\* big-endian, address octets; 8 or 20 bytes.
MappedLayout(addr, b) ==
    /\ Len(b) = (IF addr.variant = "V4" THEN 8 ELSE 20)
    /\ b = <<0, IF addr.variant = "V4" THEN 1 ELSE 2, addr.port \div 256, addr.port % 256>>
             \o addr.ip

\* The CHANGE-REQUEST wire layout: a 4-byte big-endian value with bit 0x4 for
\* change_ip and bit 0x2 for change_port.
ChangeRequestLayout(cr, b) ==
    b = <<0, 0, 0, (IF cr.change_ip THEN 4 ELSE 0) + (IF cr.change_port THEN 2 ELSE 0)>>

\* C23 as stated: for every codec and every value v, decode(encode(v)) = v;
\* MAPPED-ADDRESS over every socket address, CHANGE-REQUEST over the four
\* flag combinations, UTF-8 over strings; with the stated layouts.
C23_CodecRoundTripEveryValue ==
    /\ vin.codec = "MappedAddress" =>
         MappedLayout(vin.value, araw) /\ enc_parsed = Ok(vin.value)
    /\ vin.codec = "ChangeRequest" =>
         ChangeRequestLayout(vin.value, araw) /\ cr_decoded = Ok(vin.value)
    /\ vin.codec = "Utf8" => utf8_decoded = Ok(vin.value)

\* C23, amended: as stated for CHANGE-REQUEST and UTF-8; MAPPED-ADDRESS
\* decoding returns the address with the same IP address and port, built by
\* SocketAddr::new, which is v for every IPv4 address and for every IPv6
\* address whose flowinfo and scope_id are zero.
C23_CodecRoundTrip ==
    /\ vin.codec = "MappedAddress" =>
         /\ MappedLayout(vin.value, araw)
         /\ enc_parsed = Ok(SocketAddr_new(vin.value.ip, vin.value.port))
         /\ (vin.value.variant = "V4" \/ (vin.value.flowinfo = 0 /\ vin.value.scope_id = 0))
              => enc_parsed = Ok(vin.value)
    /\ vin.codec = "ChangeRequest" =>
         ChangeRequestLayout(vin.value, araw) /\ cr_decoded = Ok(vin.value)
    /\ vin.codec = "Utf8" => utf8_decoded = Ok(vin.value)

\* 127.0.0.1:8000 was encoded as 00 01 1F 40 7F 00 00 01 and decoded to
\* itself, or change_ip without change_port as 00 00 00 04 and back.
C23_Witness ==
    \/ /\ vin = [codec |-> "MappedAddress", value |-> V4(<<127, 0, 0, 1>>, 8000)]
       /\ araw = <<0, 1, 31, 64, 127, 0, 0, 1>>
       /\ enc_parsed = Ok(vin.value)
    \/ /\ vin = [codec |-> "ChangeRequest",
                 value |-> [change_ip |-> TRUE, change_port |-> FALSE]]
       /\ araw = <<0, 0, 0, 4>>
       /\ cr_decoded = Ok(vin.value)

----------------------------------------------------------------------------
(* Claims about recorded runs of the session.                              *)

\* C24: the session step depends only on the state and the event: a second
\* session started in the same state and fed the same events later, when the
\* clock has moved on, and with other datagram bytes, passes through the same
\* states and emits the same outgoing as the first one did.
C24_StepDependsOnStateAndEvent ==
    replayed > 0 =>
        /\ twin = log[replayed].state
        /\ twin_out = log[replayed].outgoing

\* The second session completed on a datagram with other bytes than the
\* first one's, after the clock had moved past the first Idle.
C24_Witness ==
    /\ replayed = Len(log)
    /\ replayed >= 2
    /\ twin_event.tag = "DatagramReceived"
    /\ twin_event # log[replayed].event
    /\ twin = Complete(Ok_EndpointIndependent)
    /\ twin = state
    /\ \E k \in 1..Len(log) : log[k].event.tag = "Idle" /\ log[k].event.now < clock

\* The i-th recorded event is the first Idle of the run.
FirstIdle(i) ==
    /\ log[i].event.tag = "Idle"
    /\ \A j \in 1..(i - 1) : log[j].event.tag # "Idle"

\* C26: over any event sequence from Initial, FirstAttempt is emitted exactly
\* on the first Idle event and every other process call, before or after it,
\* emits None; a timeout does not send the attempt again.
C26_FirstAttemptOnce ==
    \A i \in 1..Len(log) :
        log[i].outgoing = (IF FirstIdle(i) THEN "FirstAttempt" ELSE "None")

\* A datagram, the first Idle and a timeout: only the Idle sent the attempt.
C26_Witness ==
    /\ Len(log) = 3
    /\ log[1].event.tag = "DatagramReceived" /\ log[1].outgoing = "None"
    /\ log[2].event.tag = "Idle" /\ log[2].outgoing = "FirstAttempt"
    /\ log[3].event.tag = "Idle" /\ log[3].outgoing = "None"
    /\ log[3].state = Complete(Err_UnexpectedTimeout)

\* The position of a state in the order Initial, FirstPacketSent, Complete.
Phase(st) ==
    CASE st.tag = "Initial" -> 0
      [] st.tag = "FirstPacketSent" -> 1
      [] st.tag = "Complete" -> 2

\* The state before the i-th recorded process call.
StateBefore(i) == IF i = 1 THEN Initial ELSE log[i - 1].state

\* C27: in every run the phase never regresses and Complete is entered only
\* from FirstPacketSent; the deadline is the Instant of the first Idle plus 3
\* seconds in every later FirstPacketSent state, whatever Idle or datagram
\* came in between, and status() reports exactly that deadline.
C27_PhaseAndDeadline ==
    \A i \in 1..Len(log) :
        /\ Phase(StateBefore(i)) <= Phase(log[i].state)
        /\ (log[i].state.tag = "Complete" /\ StateBefore(i).tag # "Complete")
             => StateBefore(i).tag = "FirstPacketSent"
        /\ log[i].state.tag = "FirstPacketSent" =>
             \E k \in 1..i :
                /\ FirstIdle(k)
                /\ log[i].state.timeout_at = log[k].event.now + 3
                /\ \A now \in 0..MaxNow :
                     status(log[i].state, now)
                       = [tag |-> "Waiting", timeout |-> log[k].event.now + 3]

\* After the first Idle at 2, two more Idle events before the deadline left
\* the deadline at 5.
C27_Witness ==
    /\ Len(log) = 3
    /\ log[1].event = Idle(2)
    /\ log[2].event = Idle(4)
    /\ log[3].event = Idle(3)
    /\ log[3].state = FirstPacketSent(5)
    /\ status(state, 4) = [tag |-> "Waiting", timeout |-> 5]

----------------------------------------------------------------------------
(* Claims about a session run by the driver loop.                          *)

\* C25: a session started in Initial and run by the driver loop, woken by a
\* datagram or at the reported deadline with an Idle whose Instant is the
\* deadline or later, eventually reaches Complete; it does not stay in
\* FirstPacketSent forever when it is woken exactly at the deadline.
C25_EventuallyComplete == <>(state.tag = "Complete")

\* What the code does guarantee: a wakeup at the deadline completes the
\* session whenever the Instant it carries is later than the deadline.
C25_LaterWakeupCompletes ==
    (pc = "status" /\ pre.tag = "FirstPacketSent"
       /\ (event.tag = "DatagramReceived" \/ event.now > pre.timeout_at))
        => state.tag = "Complete"

----------------------------------------------------------------------------
(* Claims about the termination of the attribute iterator.                 *)

\* the calls of next() so far that yielded an item
Yielding == { i \in 1..Len(results) : results[i].ret.kind # "None" }

\* C28: iterating over a slice of n bytes terminates: every Ok step shrinks
\* the remaining slice by at least 4 bytes (also for a zero-length value),
\* every Err step empties it, the remaining slice is always a suffix of the
\* original, None comes after at most floor(n/4) + 1 calls that yield an
\* item, and the yielded value slices are disjoint and in increasing offset
\* order.
C28_IteratorTerminates ==
    stage = "StunAttributeIterator" =>
        LET n == Len(source) IN
        /\ Len(data) <= n
        /\ data = SubSeq(source, n - Len(data) + 1, n)
        /\ \A i \in 1..Len(results) :
            LET r == results[i] IN
            /\ r.ret.kind = "Ok" =>
                /\ r.next - r.start >= 4
                /\ r.next <= n
                /\ r.ret.data = SubSeq(source, r.start + 5, r.next)
            /\ r.ret.kind = "Err" => r.next = n
            /\ r.ret.kind = "None" => (r.start = n /\ r.next = n)
        /\ Cardinality(Yielding) <= (n \div 4) + 1
        /\ \A i \in 1..Len(results) : i > (n \div 4) + 1 => results[i].ret = ItemNone
        /\ \A i, j \in 1..Len(results) :
            (i < j /\ results[i].ret.kind = "Ok" /\ results[j].ret.kind = "Ok")
                => results[i].next <= results[j].start

\* two attributes with zero-length values were yielded from an 8-byte slice
\* and the third call returned None
C28_Witness ==
    /\ stage = "StunAttributeIterator"
    /\ Len(source) = 8
    /\ Len(results) >= 3
    /\ results[1].ret.kind = "Ok" /\ results[1].ret.data = <<>>
    /\ results[2].ret.kind = "Ok" /\ results[2].start = 4
    /\ results[3].ret = ItemNone

----------------------------------------------------------------------------
(* Claims about decoding a well-prefixed header.                           *)

\* C30: for every 20-byte slice whose byte 0 has its two most significant
\* bits clear and whose bytes 4..8 are the magic cookie, decode_with_length
\* succeeds, with a class of the four classes and a method in 0..4095 (the
\* class and method errors are not reached), and encode_with_length of the
\* decoded header with the decoded length gives the same 20 bytes.
C30_WellPrefixedHeaderDecodes ==
    (sdec # NotApplied /\ Len(hraw) = STUN_HEADER_BYTES /\ ~StartingBitsSet(hraw)
        /\ SubSeq(hraw, 5, 8) = MAGIC_COOKIE)
    => /\ hdec.ok
       /\ hdec.header.class \in MessageClasses
       /\ hdec.header.method \in 0..4095
       /\ hdec.length \in 0..65535
       /\ encode_with_length(hdec.header, <<>>, hdec.length) = hraw

\* The bytes 3F FF FF FF, cookie, transaction id, given as a raw slice, were
\* decoded as an ErrorResponse with method 4095 and length 65535.
C30_Witness ==
    /\ hin = NoInput
    /\ hraw = <<63, 255, 255, 255>> \o MAGIC_COOKIE \o TxId2
    /\ hdec.ok
    /\ hdec.header = [class |-> "ErrorResponse", method |-> 4095, tx_id |-> TxId2]
    /\ hdec.length = 65535

----------------------------------------------------------------------------
(* Claims about the diagnostics driver.                                    *)

\* C29: run_session returns Ok(()) only if a message was delivered on the
\* incoming channel, and returns Err(TimeoutOccurred) when no message arrives
\* by the deadline (first proceed time + 3 s); a channel closed without any
\* message is not taken for a received datagram.
C29_OkOnlyIfDelivered ==
    /\ result.kind = "Ok" => delivered
    /\ sess.received => delivered
    /\ (run_pc = "returned" /\ ~delivered)
        => (result.kind = "Err" /\ result.err = TimeoutOccurred)

\* What the code does guarantee: Err(TimeoutOccurred) is returned only at or
\* after the deadline, first proceed time + 3 s, and only when the receive
\* branch of the select never ran.
C29_ErrOnlyAfterDeadline ==
    (result.kind = "Err" /\ result.err = TimeoutOccurred) =>
        /\ sess.timeout.some
        /\ instant >= sess.timeout.t
        /\ ~sess.received
        /\ ~delivered

====
